---- MODULE Spec2Model ----
(***************************************************************************)
(* Model of the pyscaff workflow engine (app/engine/orchestrator.py), its  *)
(* four step executors (app/executors), the cancel endpoint                *)
(* (app/routers/executions.py) and the create and update endpoints of      *)
(* workflows (app/routers/workflows.py).                                   *)
(*                                                                         *)
(* The database is the pair (runs, history).  An engine call works on a    *)
(* session-local copy of the Run row (calls[c].sess); a commit writes the  *)
(* attributes the call has modified since its last commit to the row.      *)
(***************************************************************************)
EXTENDS Integers, Sequences, FiniteSets, TLC

\* ------------------------------------------------------------------ bounds
MaxRuns == 1
MaxHistory == 2
MaxWorkflows == 1
MaxVersion == 3

\* ------------------------------------------------------- program constants
MAX_RETRIES == 2
MAX_EXPRESSION_LENGTH == 256

\* ------------------------------------------------------------- JSON values
Str(s) == [t |-> "str", s |-> s]
Num(n) == [t |-> "num", n |-> n]
Bool(b) == [t |-> "bool", b |-> b]
Map(m) == [t |-> "map", m |-> m]
List(l) == [t |-> "list", l |-> l]
Token(n) == [t |-> "token", n |-> n]

EmptyMap == [x \in {} |-> x]

\* Python truthiness of a JSON value
Truthy(v) ==
    CASE v.t = "bool" -> v.b
      [] v.t = "str" -> v.s # ""
      [] v.t = "num" -> v.n # 0
      [] v.t = "map" -> DOMAIN v.m # {}
      [] v.t = "list" -> Len(v.l) > 0
      [] OTHER -> TRUE

\* dict.update: entries of new override entries of old
\* an update that replaces the dict by the new entries
DictReplace(old, new) == new

DictUpdate(old, new) == new @@ old

None == "None"

\* ------------------------------------------------- workflow definition store
FormFields ==
    << [key |-> "name", type |-> "text", required |-> TRUE],
       [key |-> "note", type |-> "textarea", required |-> FALSE],
       [key |-> "age", type |-> "number", required |-> FALSE] >>

GreetSchema == [required |-> {"greeting", "success"}]

OptionalFields == << [key |-> "note", type |-> "textarea", required |-> FALSE] >>

FormStep(id, nxt, fields) ==
    [step_id |-> id, type |-> "form", next |-> nxt, config |-> [fields |-> fields]]
AIStep(id, nxt) ==
    [step_id |-> id, type |-> "ai_generate", next |-> nxt,
     config |-> [template_id |-> "greet", variables |-> <<"name">>, json_schema |-> GreetSchema]]
CondStep(id, nxt, when) ==
    [step_id |-> id, type |-> "conditional", next |-> nxt, config |-> [when |-> when]]
ApprovalStep(id, nxt) ==
    [step_id |-> id, type |-> "approval", next |-> nxt, config |-> [approvers |-> <<"m@x">>]]
OtherStep(id, nxt) ==
    [step_id |-> id, type |-> "unsupported_type", next |-> nxt, config |-> EmptyMap]

\* Conditional expressions: the text's validation-relevant features (its
\* length, whether it contains "__", whether a letter or underscore is followed
\* by a dot) and its parsed form.
ExprGt ==
    [text |-> "value > 10", len |-> 10, dunder |-> FALSE, attr |-> FALSE,
     op |-> "gt", var |-> "value", k |-> 10]
ExprSuccess ==
    [text |-> "g_output['success'] == True", len |-> 27, dunder |-> FALSE, attr |-> FALSE,
     op |-> "index_true", var |-> "g_output", k |-> 0]
ExprTrue ==
    [text |-> "True", len |-> 4, dunder |-> FALSE, attr |-> FALSE, op |-> "const", var |-> "", k |-> 1]
ExprFalse ==
    [text |-> "False", len |-> 5, dunder |-> FALSE, attr |-> FALSE, op |-> "const", var |-> "", k |-> 0]
ExprAttr ==
    [text |-> "user.__class__", len |-> 14, dunder |-> TRUE, attr |-> TRUE,
     op |-> "attr", var |-> "user", k |-> 0]
\* "True" followed by " or True" 63 times: 4 + 63 * 8 characters
ExprLongest ==
    [text |-> "True or True ... or True (256 characters)", len |-> 256, dunder |-> FALSE,
     attr |-> FALSE, op |-> "const", var |-> "", k |-> 1]
\* the same with one more blank
ExprTooLong ==
    [text |-> "True or True ... or  True (257 characters)", len |-> 257, dunder |-> FALSE,
     attr |-> FALSE, op |-> "const", var |-> "", k |-> 1]
\* a comparison of string literals, one of them "__"
ExprDunder ==
    [text |-> "'__' != ''", len |-> 10, dunder |-> TRUE, attr |-> FALSE,
     op |-> "const", var |-> "", k |-> 1]

Workflows ==
    [ lifecycle |-> [version |-> 1, start_step |-> "f",
                     steps |-> << FormStep("f", "g", FormFields), AIStep("g", "c"), CondStep("c", None, ExprSuccess) >>],
      approval  |-> [version |-> 1, start_step |-> "a",
                     steps |-> << ApprovalStep("a", None) >>],
      gate      |-> [version |-> 2, start_step |-> "a",
                     steps |-> << ApprovalStep("a", "f"), FormStep("f", None, FormFields) >>],
      simple    |-> [version |-> 1, start_step |-> "c",
                     steps |-> << CondStep("c", None, ExprGt) >>],
      dangling  |-> [version |-> 1, start_step |-> "c",
                     steps |-> << CondStep("c", "nonexistent", ExprTrue) >>],
      nostart   |-> [version |-> 3, start_step |-> "zz",
                     steps |-> << CondStep("c", None, ExprTrue) >>],
      unsafe    |-> [version |-> 1, start_step |-> "c",
                     steps |-> << CondStep("c", None, ExprAttr) >>],
      badtype   |-> [version |-> 1, start_step |-> "b",
                     steps |-> << OtherStep("b", None) >>],
      generate  |-> [version |-> 1, start_step |-> "g",
                     steps |-> << AIStep("g", None) >>],
      survey    |-> [version |-> 1, start_step |-> "s",
                     steps |-> << FormStep("s", None, OptionalFields) >> ],
      verdict   |-> [version |-> 1, start_step |-> "c0",
                     steps |-> << CondStep("c0", "c1", ExprFalse), CondStep("c1", None, ExprTrue) >>],
      limits    |-> [version |-> 1, start_step |-> "c256",
                     steps |-> << CondStep("c256", "cdunder", ExprLongest),
                                  CondStep("cdunder", "c257", ExprDunder),
                                  CondStep("c257", None, ExprTooLong) >> ] ]

WorkflowIds == DOMAIN Workflows
MissingWorkflow == "missing"

Null == [t |-> "null"]

Workflow(workflow_id) == Workflows[workflow_id]

\* step_map.get(step_id): the step record, or NoStep when the id names no step
NoStep == [step_id |-> None, type |-> None, next |-> None, config |-> EmptyMap]
HasStep(workflow, step_id) == \E i \in 1..Len(workflow.steps) : workflow.steps[i].step_id = step_id
StepMapGet(workflow, step_id) ==
    IF HasStep(workflow, step_id)
    THEN LET i == CHOOSE j \in 1..Len(workflow.steps) : workflow.steps[j].step_id = step_id
         IN workflow.steps[i]
    ELSE NoStep

\* ------------------------------------------------------------ form executor
Valid(m) == [ok |-> TRUE, value |-> m, exc |-> "", msg |-> ""]
Invalid(exc, msg) == [ok |-> FALSE, value |-> EmptyMap, exc |-> exc, msg |-> msg]

RECURSIVE ValidateFrom(_, _, _, _)
ValidateFrom(fields, inputs, i, validated) ==
    IF i > Len(fields) THEN Valid(validated)
    ELSE LET field == fields[i] IN
         IF field.required /\ field.key \notin DOMAIN inputs
         THEN Invalid("ValueError", "Required field '" \o field.key \o "' is missing")
         ELSE IF field.key \notin DOMAIN inputs
         THEN ValidateFrom(fields, inputs, i + 1, validated)
         ELSE IF field.type \notin {"text", "textarea"}
         THEN Invalid("ValueError", "Field type '" \o field.type \o "' not supported")
         ELSE IF inputs[field.key].t # "str"
         THEN Invalid("ValueError", "Field '" \o field.key \o "' must be a string")
         ELSE ValidateFrom(fields, inputs, i + 1, (field.key :> inputs[field.key]) @@ validated)

\* a validation that accepts every inputs map as it is
validate_fields_unchecked(config, inputs) == Valid(inputs)

\* a validation that checks the fields and returns the inputs it was given
validate_fields_returns_inputs(config, inputs) ==
    IF ValidateFrom(config.fields, inputs, 1, EmptyMap).ok THEN Valid(inputs)
    ELSE ValidateFrom(config.fields, inputs, 1, EmptyMap)

\* a validation that checks the types of all present fields before it looks
\* for missing required fields
validate_fields_types_first(config, inputs) ==
    LET unsupported == {n \in 1..Len(config.fields) :
                           /\ config.fields[n].key \in DOMAIN inputs
                           /\ config.fields[n].type \notin {"text", "textarea"}}
    IN  IF unsupported # {}
        THEN Invalid("ValueError", "Field type '" \o
                        config.fields[CHOOSE n \in unsupported : \A m \in unsupported : n <= m].type
                        \o "' not supported")
        ELSE ValidateFrom(config.fields, inputs, 1, EmptyMap)

validate_fields(config, inputs) == ValidateFrom(config.fields, inputs, 1, EmptyMap)

Returned(result, context) ==
    [raised |-> FALSE, exc |-> "", msg |-> "", result |-> result, context |-> context, calls |-> 0]
Raised(exc, msg, context) ==
    [raised |-> TRUE, exc |-> exc, msg |-> msg, result |-> EmptyMap, context |-> context, calls |-> 0]

\* a write that leaves the runtime with the written entry alone
SetRuntimeAlone(context, key, value) ==
    [context EXCEPT !.runtime = (key :> value)]

SetRuntime(context, key, value) ==
    [context EXCEPT !.runtime = (key :> value) @@ context.runtime]

\* a form executor that pauses without writing the schema to the context
FormExecuteNoWrite(config, context, step_id) ==
    Returned([pause |-> TRUE, waiting_for |-> "form", fields_schema |-> List(config.fields)],
             context)

FormExecute(config, context, step_id) ==
    Returned([pause |-> TRUE, waiting_for |-> "form", fields_schema |-> List(config.fields)],
             SetRuntime(context, step_id \o "_schema", List(config.fields)))

\* -------------------------------------------------------- approval executor
ApprovalExecute(config, context, step_id, token) ==
    Returned([pause |-> TRUE, waiting_for |-> "approval",
              approval_token |-> Token(token), approvers |-> List(config.approvers)],
             SetRuntime(context, step_id \o "_approval",
                        Map([token |-> Token(token), approvers |-> List(config.approvers),
                             status |-> Str("pending")])))

\* ----------------------------------------------------- conditional executor
\* a validation whose length limit is exclusive
ValidateExpressionExclusive(expression) ==
    IF expression.len = 0
    THEN Invalid("ValueError", "Expression cannot be empty")
    ELSE IF expression.len >= MAX_EXPRESSION_LENGTH
    THEN Invalid("ValueError", "Expression exceeds maximum length")
    ELSE IF expression.attr
    THEN Invalid("ValueError", "Attribute access not allowed in expressions")
    ELSE Valid(EmptyMap)

\* a letter or underscore followed by a dot is looked for when the text has
\* "__" or a dot; a text with such a pair has a dot
ValidateExpression(expression) ==
    IF expression.len = 0
    THEN Invalid("ValueError", "Expression cannot be empty")
    ELSE IF expression.len > MAX_EXPRESSION_LENGTH
    THEN Invalid("ValueError", "Expression exceeds maximum length")
    ELSE IF expression.attr
    THEN Invalid("ValueError", "Attribute access not allowed in expressions")
    ELSE Valid(EmptyMap)

\* a merge in which the earlier layer keeps its entries
MergeContextNamespacesStaticFirst(context) ==
    DictUpdate(DictUpdate(context.runtime, context.profile), context.static)

MergeContextNamespaces(context) ==
    DictUpdate(DictUpdate(context.static, context.profile), context.runtime)

\* interpreter(expression) followed by the inspection of interpreter.error
Evaluate(expression, namespace) ==
    CASE expression.op = "const" -> Valid(expression.k # 0)
      [] expression.op = "gt" ->
            IF expression.var \notin DOMAIN namespace
            THEN Invalid("NameError", "name '" \o expression.var \o "' is not defined")
            ELSE IF namespace[expression.var].t # "num"
            THEN Invalid("ValueError", "Expression evaluation failed")
            ELSE Valid(namespace[expression.var].n > expression.k)
      [] expression.op = "index_true" ->
            IF expression.var \notin DOMAIN namespace
            THEN Invalid("NameError", "name '" \o expression.var \o "' is not defined")
            ELSE IF namespace[expression.var].t # "map"
            THEN Invalid("ValueError", "Expression evaluation failed")
            ELSE IF "success" \notin DOMAIN namespace[expression.var].m
            THEN Invalid("ValueError", "Expression evaluation failed")
            ELSE Valid(namespace[expression.var].m["success"] = Bool(TRUE))
      [] OTHER -> Invalid("ValueError", "Invalid expression syntax")

ConditionalExecute(config, context, step_id) ==
    LET expression == config.when
        checked == ValidateExpression(expression)
        evaluated == Evaluate(expression, MergeContextNamespaces(context))
    IN  IF ~checked.ok THEN Raised(checked.exc, checked.msg, context)
        ELSE IF ~evaluated.ok THEN Raised(evaluated.exc, evaluated.msg, context)
        ELSE Returned([result |-> evaluated.value, expression |-> expression.text], context)

\* ----------------------------------------------------- AI-generate executor
\* What one provider.generate call can do: return an object or raise.
GoodObject == Map([greeting |-> Str("hello"), success |-> Bool(TRUE)])
BadObject == Map([invalid |-> Str("y")])
ProviderOutcomes ==
    { [kind |-> "object", obj |-> GoodObject],
      [kind |-> "object", obj |-> BadObject],
      [kind |-> "timeout", obj |-> Null],
      [kind |-> "error", obj |-> Null] }

\* jsonschema.validate for the schemas of the store (an object with required keys)
SchemaValid(instance, json_schema) ==
    instance.t = "map" /\ json_schema.required \subseteq DOMAIN instance.m

\* the value of one variable: first of static, profile, runtime holding the
\* name; None (Null) when no layer holds it
RECURSIVE LookupVariable(_, _, _)
LookupVariable(context, var_name, sections) ==
    IF sections = <<>> THEN Null
    ELSE IF var_name \in DOMAIN context[Head(sections)]
    THEN context[Head(sections)][var_name]
    ELSE LookupVariable(context, var_name, Tail(sections))

RECURSIVE ExtractFrom(_, _, _, _)
ExtractFrom(config, context, i, variables) ==
    IF i > Len(config.variables) THEN Valid(variables)
    ELSE LET var_name == config.variables[i]
             value == LookupVariable(context, var_name, <<"static", "profile", "runtime">>)
         IN  IF value = Null
             THEN Invalid("ValueError", "Variable '" \o var_name \o "' not found in context")
             ELSE ExtractFrom(config, context, i + 1, (var_name :> value) @@ variables)

\* an extraction that passes on the names the context does not hold
ExtractVariablesSkipMissing(config, context) ==
    LET sections == <<"static", "profile", "runtime">>
        held == {config.variables[n] : n \in 1..Len(config.variables)} \cap
                UNION {DOMAIN context[sections[k]] : k \in 1..3}
    IN  Valid([v \in held |-> LookupVariable(context, v, sections)])

ExtractVariables(config, context) == ExtractFrom(config, context, 1, EmptyMap)

ManualFix(last_error, retry_count) ==
    [pause |-> TRUE, waiting_for |-> "manual_fix", error |-> last_error,
     retry_count |-> retry_count]

\* a retry loop that lets a provider error other than a timeout escape
RECURSIVE AIAttemptsRaiseOnError(_, _, _, _, _)
AIAttemptsRaiseOnError(config, context, step_id, outs, retry_count) ==
    LET out == outs[retry_count + 1]
        made == retry_count + 1
        last_error == CASE out.kind = "object" -> "Schema validation failed"
                        [] out.kind = "timeout" -> "provider timed out"
                        [] OTHER -> "provider error"
    IN  IF out.kind = "object" /\ SchemaValid(out.obj, config.json_schema)
        THEN [Returned([pause |-> FALSE, output |-> out.obj, retry_count |-> retry_count],
                       SetRuntime(context, step_id \o "_output", out.obj))
              EXCEPT !.calls = made]
        ELSE IF out.kind = "error"
        THEN [Raised("Exception", last_error, context) EXCEPT !.calls = made]
        ELSE IF retry_count + 1 <= MAX_RETRIES
        THEN AIAttemptsRaiseOnError(config, context, step_id, outs, retry_count + 1)
        ELSE [Returned(ManualFix(last_error, retry_count + 1), context) EXCEPT !.calls = made]

\* a retry loop that counts the first attempt as a retry
RECURSIVE AIAttemptsCountFromOne(_, _, _, _, _)
AIAttemptsCountFromOne(config, context, step_id, outs, retry_count) ==
    LET out == outs[retry_count + 1]
        made == retry_count + 1
        last_error == CASE out.kind = "object" -> "Schema validation failed"
                        [] out.kind = "timeout" -> "provider timed out"
                        [] OTHER -> "provider error"
    IN  IF out.kind = "object" /\ SchemaValid(out.obj, config.json_schema)
        THEN [Returned([pause |-> FALSE, output |-> out.obj, retry_count |-> made],
                       SetRuntime(context, step_id \o "_output", out.obj))
              EXCEPT !.calls = made]
        ELSE IF retry_count + 1 <= MAX_RETRIES
        THEN AIAttemptsCountFromOne(config, context, step_id, outs, retry_count + 1)
        ELSE [Returned(ManualFix(last_error, retry_count + 1), context) EXCEPT !.calls = made]

\* the retry loop; outs[k] is what the k-th provider call does
RECURSIVE AIAttempts(_, _, _, _, _)
AIAttempts(config, context, step_id, outs, retry_count) ==
    LET out == outs[retry_count + 1]
        made == retry_count + 1
        last_error == CASE out.kind = "object" -> "Schema validation failed"
                        [] out.kind = "timeout" -> "provider timed out"
                        [] OTHER -> "provider error"
    IN  IF out.kind = "object" /\ SchemaValid(out.obj, config.json_schema)
        THEN [Returned([pause |-> FALSE, output |-> out.obj, retry_count |-> retry_count],
                       SetRuntime(context, step_id \o "_output", out.obj))
              EXCEPT !.calls = made]
        ELSE IF retry_count + 1 <= MAX_RETRIES
        THEN AIAttempts(config, context, step_id, outs, retry_count + 1)
        ELSE [Returned(ManualFix(last_error, retry_count + 1), context) EXCEPT !.calls = made]

AIExecute(config, context, step_id, outs) ==
    LET variables == ExtractVariables(config, context)
    IN  IF ~variables.ok THEN Raised(variables.exc, variables.msg, context)
        ELSE AIAttempts(config, context, step_id, outs, 0)

\* ------------------------------------------------ orchestrator: execute_step
ExecuteStep(context, step, outs, token) ==
    CASE step.type = "form" -> FormExecute(step.config, context, step.step_id)
      [] step.type = "ai_generate" -> AIExecute(step.config, context, step.step_id, outs)
      [] step.type = "conditional" -> ConditionalExecute(step.config, context, step.step_id)
      [] step.type = "api_call" ->
            Raised("NotImplementedError", "API call executor not yet implemented", context)
      [] step.type = "approval" -> ApprovalExecute(step.config, context, step.step_id, token)
      [] OTHER -> Raised("ValueError", "Unsupported step type: " \o step.type, context)

Pause(result) == "pause" \in DOMAIN result /\ result.pause

\* ---------------------------------------------------------------- the state
Callers == {"c1", "c2"}
\* callers that issue their calls one after another
Sequential == {"c1"}

StartInputs == { EmptyMap, [name |-> Str("Diana"), value |-> Num(15)] }
ResumeInputs ==
    { EmptyMap,
      [name |-> Str("Diana")],
      [name |-> Num(7)],
      [name |-> Str("Diana"), age |-> Str("3")],
      [approval |-> Map([approved |-> Bool(TRUE), comments |-> Str("ok")])],
      [approval |-> Map([approved |-> Bool(FALSE)])],
      [approval |-> Str("yes")],
      [approval |-> Map([comments |-> Str("ok")])],
      [approval |-> Map([approved |-> Str("no")])],
      [approval |-> Map([approved |-> Bool(TRUE)]), a_approval |-> Str("x")] }
Keys == {None, "k"}

VARIABLES
    runs,      \* table runs: runs[id] is the committed row of run id
    history,   \* table run_steps: history[id] is the committed records of run id, in insertion order
    calls,     \* per caller: the engine call in flight, its session and its outcome
    minted,    \* number of approval tokens generated so far
    workflow_table  \* tables workflows and steps as the workflows router writes them

vars == <<runs, history, calls, minted, workflow_table>>

EmptyContext == [static |-> EmptyMap, profile |-> EmptyMap, runtime |-> EmptyMap]
EmptyRun ==
    [id |-> 0, workflow_id |-> "", workflow_version |-> 0, status |-> "", current_step |-> None,
     context |-> EmptyContext, idempotency_key |-> None]
NoArgs == [workflow_id |-> "", run_id |-> 0, inputs |-> EmptyMap, idempotency_key |-> None]
NoOutcome == [kind |-> "none", run_id |-> 0, error |-> "", exc |-> "", msg |-> "", at |-> ""]
Idle == [op |-> "none", pc |-> "idle", sess |-> EmptyRun, dirty |-> {}, args |-> NoArgs,
         outcome |-> NoOutcome]

\* at is the place that returned
ReturnedRun(run_id, at) ==
    [kind |-> "returned", run_id |-> run_id, error |-> "", exc |-> "", msg |-> "", at |-> at]
\* error is the class of the error surface (NotFound, Conflict, Invalid, ...),
\* exc the exception type raised, at the place that raised it
RaisedError(run_id, error, exc, msg, at) ==
    [kind |-> "raised", run_id |-> run_id, error |-> error, exc |-> exc, msg |-> msg, at |-> at]

StartArgs(workflow_id, inputs, idempotency_key) ==
    [NoArgs EXCEPT !.workflow_id = workflow_id, !.inputs = inputs,
                   !.idempotency_key = idempotency_key]
RunArgs(run_id, inputs) == [NoArgs EXCEPT !.run_id = run_id, !.inputs = inputs]

\* a call in its first step, and a call that has returned or raised
Call(op, args, pc, sess) == [Idle EXCEPT !.op = op, !.args = args, !.pc = pc, !.sess = sess]
\* of the arguments of a call the record keeps the idempotency key and the run id
Kept(args) == [NoArgs EXCEPT !.idempotency_key = args.idempotency_key, !.run_id = args.run_id]
Done(call, outcome) ==
    [call EXCEPT !.pc = "done", !.sess = EmptyRun, !.dirty = {}, !.args = Kept(@),
                 !.outcome = outcome]

RunIds == 1..Len(runs)
Free(c) == calls[c].pc \in {"idle", "done"}
InFlight(c) == ~Free(c)
\* the caller holds no result of an earlier call: it may issue a call
Ready(c) == calls[c].pc = "idle"

\* session.commit(): the modified attributes of the session's Run reach the row
Commit(row, sess, dirty) ==
    [a \in DOMAIN row |-> IF a \in dirty THEN sess[a] ELSE row[a]]

\* number of run_steps rows of the runs in ids
RECURSIVE Recorded(_)
Recorded(ids) ==
    IF ids = {} THEN 0
    ELSE LET id == CHOOSE i \in ids : TRUE IN Len(history[id]) + Recorded(ids \ {id})

\* a clock that advances only when a run is created
utcnow_frozen == Len(runs)

\* datetime.now(UTC) at the insert of a run_steps row: the clock has advanced
\* since the insert before
utcnow == Recorded(RunIds) + 1

Init ==
    /\ runs = <<>>
    /\ history = <<>>
    /\ calls = [c \in Callers |-> Idle]
    /\ minted = 0
    /\ workflow_table = <<>>

\* ------------------------------------------------------------------ start_run
\* select(Run).where(Run.idempotency_key == idempotency_key): ids of matching rows
RunsWithKey(key) == {id \in RunIds : runs[id].idempotency_key = key}

\* start_run without the idempotency check
ExistingRunUnchecked(key) == 0

\* the check at the head of start_run: the id of the existing run to return, 0 for none
ExistingRun(key) ==
    IF key # None /\ key # "" /\ RunsWithKey(key) # {}
    THEN CHOOSE id \in RunsWithKey(key) : TRUE
    ELSE 0

\* a Run constructed with a fixed version instead of the workflow's
NewRunVersionOne(id, workflow_id, inputs, idempotency_key) ==
    [id |-> id, workflow_id |-> workflow_id,
     workflow_version |-> 1,
     status |-> "running",
     current_step |-> Workflow(workflow_id).start_step,
     context |-> [static |-> EmptyMap, profile |-> EmptyMap, runtime |-> inputs],
     idempotency_key |-> idempotency_key]

NewRun(id, workflow_id, inputs, idempotency_key) ==
    [id |-> id, workflow_id |-> workflow_id,
     workflow_version |-> Workflow(workflow_id).version,
     status |-> "running",
     current_step |-> Workflow(workflow_id).start_step,
     context |-> [static |-> EmptyMap, profile |-> EmptyMap, runtime |-> inputs],
     idempotency_key |-> idempotency_key]

\* start_run up to the call of _execute_workflow: the idempotency check, the
\* workflow lookup, and the insert of the Run row under the unique constraint
\* on idempotency_key
StartRun(c, workflow_id, inputs, idempotency_key) ==
    /\ Ready(c)
    /\ LET call == Call("start", StartArgs(workflow_id, inputs, idempotency_key), "loop", EmptyRun)
           existing == ExistingRun(idempotency_key)
       IN  IF existing # 0
           THEN /\ calls' = [calls EXCEPT ![c] = Done(call, ReturnedRun(existing, "existing_run"))]
                /\ UNCHANGED <<runs, history>>
           ELSE IF workflow_id \notin WorkflowIds
           THEN /\ calls' = [calls EXCEPT ![c] =
                       Done(call, RaisedError(0, "NotFound", "ValueError", "Workflow not found",
                                              "start_run"))]
                /\ UNCHANGED <<runs, history>>
           ELSE /\ Len(runs) < MaxRuns
                /\ Recorded(RunIds) < MaxHistory
                /\ IF idempotency_key # None /\ RunsWithKey(idempotency_key) # {}
                   THEN /\ calls' = [calls EXCEPT ![c] =
                               Done(call, RaisedError(0, "Integrity", "IntegrityError",
                                                      "UNIQUE constraint failed", "start_run"))]
                        /\ UNCHANGED <<runs, history>>
                   ELSE LET run == NewRun(Len(runs) + 1, workflow_id, inputs, idempotency_key) IN
                        /\ runs' = Append(runs, run)
                        /\ history' = Append(history, <<>>)
                        /\ calls' = [calls EXCEPT ![c] = [call EXCEPT !.sess = run, !.args = Kept(@)]]
    /\ UNCHANGED minted
    /\ UNCHANGED workflow_table

\* ------------------------------------------------------- _execute_workflow
CompletedRunStep(run_id, step, result) ==
    [run_id |-> run_id, step_id |-> step.step_id, type |-> step.type, status |-> "completed",
     output |-> result, error |-> None, started_at |-> utcnow]

\* a failed record that drops the exception message
FailedRunStepNoError(run_id, step, error_msg) ==
    [run_id |-> run_id, step_id |-> step.step_id, type |-> step.type, status |-> "failed",
     output |-> EmptyMap, error |-> None, started_at |-> utcnow]

FailedRunStep(run_id, step, error_msg) ==
    [run_id |-> run_id, step_id |-> step.step_id, type |-> step.type, status |-> "failed",
     output |-> EmptyMap, error |-> error_msg, started_at |-> utcnow]

\* what the provider calls of one execution do; a call made after one that
\* returned a schema-valid object is never made, and repeats it here
AllOuts ==
    { outs \in [1..(MAX_RETRIES + 1) -> ProviderOutcomes] :
        \A k \in 2..(MAX_RETRIES + 1) :
            (outs[k - 1].kind = "object" /\ SchemaValid(outs[k - 1].obj, GreetSchema))
                => outs[k] = outs[k - 1] }
NoOuts == [k \in 1..(MAX_RETRIES + 1) |-> [kind |-> "error", obj |-> Null]]

\* the step lookup fails: status failed is committed and ValueError raised
StepNotFound(c) ==
    LET sess == [calls[c].sess EXCEPT !.status = "failed"]
        id == sess.id
    IN  /\ runs' = [runs EXCEPT ![id] = Commit(runs[id], sess, calls[c].dirty \cup {"status"})]
        /\ calls' = [calls EXCEPT ![c] =
               Done(@, RaisedError(id, "Invalid", "ValueError",
                                             "Step not found in workflow", "lookup"))]
        /\ UNCHANGED history

\* except Exception: rollback, re-fetch the row, record the failed step, mark failed, re-raise
StepFailed(c, step, out) ==
    LET id == calls[c].sess.id
        refetched == runs[id]
    IN  /\ history' = [history EXCEPT ![id] = Append(@, FailedRunStep(id, step, out.msg))]
        /\ runs' = [runs EXCEPT ![id] =
               Commit(runs[id], [refetched EXCEPT !.status = "failed"], {"status"})]
        /\ calls' = [calls EXCEPT ![c] =
               Done(@, RaisedError(id, "Invalid", out.exc, out.msg, "executor"))]

\* a pause that commits the waiting status without adding the RunStep
StepPausedUnrecorded(c, step, out) ==
    LET id == calls[c].sess.id
        sess == [calls[c].sess EXCEPT !.context = out.context, !.status = "waiting"]
    IN  /\ runs' = [runs EXCEPT ![id] =
               Commit(runs[id], sess, calls[c].dirty \cup {"context", "status"})]
        /\ calls' = [calls EXCEPT ![c] = Done(@, ReturnedRun(id, "pause"))]
        /\ UNCHANGED history

\* the result carries the pause signal: record the step, mark waiting, commit, return
StepPaused(c, step, out) ==
    LET id == calls[c].sess.id
        sess == [calls[c].sess EXCEPT !.context = out.context, !.status = "waiting"]
    IN  /\ history' = [history EXCEPT ![id] = Append(@, CompletedRunStep(id, step, out.result))]
        /\ runs' = [runs EXCEPT ![id] =
               Commit(runs[id], sess, calls[c].dirty \cup {"context", "status"})]
        /\ calls' = [calls EXCEPT ![c] = Done(@, ReturnedRun(id, "pause"))]

\* a completion that commits the RunStep before current_step is moved
StepCompletedUnmoved(c, step, out) ==
    LET id == calls[c].sess.id
        sess == [calls[c].sess EXCEPT !.context = out.context, !.current_step = step.next]
    IN  /\ history' = [history EXCEPT ![id] = Append(@, CompletedRunStep(id, step, out.result))]
        /\ runs' = [runs EXCEPT ![id] = Commit(runs[id], sess, calls[c].dirty \cup {"context"})]
        /\ calls' = [calls EXCEPT ![c] =
               [@ EXCEPT !.sess = sess, !.dirty = {"current_step"},
                         !.pc = IF sess.current_step = None THEN "complete" ELSE "loop"]]

\* a completion that ends the run when a conditional step's result is false
StepCompletedBranching(c, step, out) ==
    LET id == calls[c].sess.id
        nxt == IF step.type = "conditional" /\ ~out.result.result THEN None ELSE step.next
        sess == [calls[c].sess EXCEPT !.context = out.context, !.current_step = nxt]
    IN  /\ history' = [history EXCEPT ![id] = Append(@, CompletedRunStep(id, step, out.result))]
        /\ runs' = [runs EXCEPT ![id] =
               Commit(runs[id], sess, calls[c].dirty \cup {"context", "current_step"})]
        /\ calls' = [calls EXCEPT ![c] =
               [@ EXCEPT !.sess = sess, !.dirty = {},
                         !.pc = IF sess.current_step = None THEN "complete" ELSE "loop"]]

\* the step ran to completion: record it, move to step.next, commit
StepCompleted(c, step, out) ==
    LET id == calls[c].sess.id
        sess == [calls[c].sess EXCEPT !.context = out.context, !.current_step = step.next]
    IN  /\ history' = [history EXCEPT ![id] = Append(@, CompletedRunStep(id, step, out.result))]
        /\ runs' = [runs EXCEPT ![id] =
               Commit(runs[id], sess, calls[c].dirty \cup {"context", "current_step"})]
        /\ calls' = [calls EXCEPT ![c] =
               [@ EXCEPT !.sess = sess, !.dirty = {},
                         !.pc = IF sess.current_step = None THEN "complete" ELSE "loop"]]

\* one pass of "while run.current_step", up to its first commit
ExecuteWorkflow(c) ==
    /\ calls[c].pc = "loop"
    /\ LET sess == calls[c].sess
           workflow == Workflow(sess.workflow_id)
           step == StepMapGet(workflow, sess.current_step)
       IN  IF sess.current_step = None
           THEN \* the loop is not entered: _execute_workflow returns
                /\ calls' = [calls EXCEPT ![c] = Done(@, ReturnedRun(sess.id, "loop_exit"))]
                /\ UNCHANGED <<runs, history, minted>>
           ELSE IF step = NoStep
           THEN StepNotFound(c) /\ UNCHANGED minted
           ELSE \E outs \in IF step.type = "ai_generate" THEN AllOuts ELSE {NoOuts} :
                   LET out == ExecuteStep(sess.context, step, outs, minted + 1) IN
                   /\ minted' = IF step.type = "approval" THEN minted + 1 ELSE minted
                   /\ IF out.raised THEN StepFailed(c, step, out)
                      ELSE IF Pause(out.result) THEN StepPaused(c, step, out)
                      ELSE StepCompleted(c, step, out)
    /\ UNCHANGED workflow_table

\* "if not run.current_step": mark completed, commit, return
CompleteRun(c) ==
    /\ calls[c].pc = "complete"
    /\ LET sess == [calls[c].sess EXCEPT !.status = "completed"]
           id == sess.id
       IN  /\ runs' = [runs EXCEPT ![id] = Commit(runs[id], sess, calls[c].dirty \cup {"status"})]
           /\ calls' = [calls EXCEPT ![c] = Done(@, ReturnedRun(id, "completed"))]
    /\ UNCHANGED <<history, minted>>
    /\ UNCHANGED workflow_table

\* ----------------------------------------------------------------- resume_run
\* resume_run without the check of the status
ResumeErrorNoStatusCheck(run_id) ==
    IF run_id \notin RunIds THEN "NotFound" ELSE ""

\* the two checks at the head of resume_run: "" when the call may proceed
ResumeError(run_id) ==
    IF run_id \notin RunIds THEN "NotFound"
    ELSE IF runs[run_id].status # "waiting" THEN "Conflict"
    ELSE ""

\* validation of the approval payload: the message of the ValueError, "" when accepted
ApprovalError(inputs) ==
    IF "approval" \notin DOMAIN inputs THEN "Missing 'approval' key in resume data"
    ELSE IF inputs["approval"].t # "map" THEN "Approval data must be a dictionary"
    ELSE IF "approved" \notin DOMAIN inputs["approval"].m
    THEN "Missing 'approved' field in approval data"
    ELSE ""

\* the decision written over the approval metadata of the paused step
RecordDecision(runtime, approval_key, approval_data) ==
    IF approval_key \in DOMAIN runtime
    THEN [runtime EXCEPT ![approval_key] =
            Map([status |-> Str(IF Truthy(approval_data.m["approved"]) THEN "approved" ELSE "rejected"),
                 comments |-> IF "comments" \in DOMAIN approval_data.m
                              THEN approval_data.m["comments"] ELSE Str("")]
                @@ @.m)]
    ELSE runtime

\* an "if inputs:" block that advances past an approval step only when approved
ApplyInputsHaltOnReject(run, inputs) ==
    LET workflow == Workflow(run.workflow_id)
        current_step == StepMapGet(workflow, run.current_step)
        merged(r, ins) == [r EXCEPT !.context.runtime = DictUpdate(@, ins)]
    IN  IF DOMAIN inputs = {} THEN Valid(run)
        ELSE IF run.current_step = None \/ current_step = NoStep THEN Valid(merged(run, inputs))
        ELSE IF current_step.type = "form"
        THEN LET validated == validate_fields(current_step.config, inputs) IN
             IF ~validated.ok THEN validated
             ELSE Valid(merged([run EXCEPT !.current_step = current_step.next], validated.value))
        ELSE IF current_step.type = "approval"
        THEN IF ApprovalError(inputs) # "" THEN Invalid("ValueError", ApprovalError(inputs))
             ELSE Valid(merged([run EXCEPT
                        !.context.runtime = RecordDecision(@, run.current_step \o "_approval",
                                                           inputs["approval"]),
                        !.current_step = IF Truthy(inputs["approval"].m["approved"])
                                         THEN current_step.next ELSE @], inputs))
        ELSE Valid(merged(run, inputs))

\* an "if inputs:" block that moves past whatever step the run waits at
ApplyInputsAdvanceAny(run, inputs) ==
    LET workflow == Workflow(run.workflow_id)
        current_step == StepMapGet(workflow, run.current_step)
        merged(r, ins) == [r EXCEPT !.context.runtime = DictUpdate(@, ins)]
    IN  IF DOMAIN inputs = {} THEN Valid(run)
        ELSE IF run.current_step = None \/ current_step = NoStep THEN Valid(merged(run, inputs))
        ELSE IF current_step.type = "form"
        THEN LET validated == validate_fields(current_step.config, inputs) IN
             IF ~validated.ok THEN validated
             ELSE Valid(merged([run EXCEPT !.current_step = current_step.next], validated.value))
        ELSE IF current_step.type = "approval"
        THEN IF ApprovalError(inputs) # "" THEN Invalid("ValueError", ApprovalError(inputs))
             ELSE Valid(merged([run EXCEPT
                        !.context.runtime = RecordDecision(@, run.current_step \o "_approval",
                                                           inputs["approval"]),
                        !.current_step = current_step.next], inputs))
        ELSE Valid(merged([run EXCEPT !.current_step = current_step.next], inputs))

\* the "if inputs:" block: the run as modified before the commit, or the error raised
ApplyInputs(run, inputs) ==
    LET workflow == Workflow(run.workflow_id)
        current_step == StepMapGet(workflow, run.current_step)
        merged(r, ins) == [r EXCEPT !.context.runtime = DictUpdate(@, ins)]
    IN  IF DOMAIN inputs = {} THEN Valid(run)
        ELSE IF run.current_step = None \/ current_step = NoStep THEN Valid(merged(run, inputs))
        ELSE IF current_step.type = "form"
        THEN LET validated == validate_fields(current_step.config, inputs) IN
             IF ~validated.ok THEN validated
             ELSE Valid(merged([run EXCEPT !.current_step = current_step.next], validated.value))
        ELSE IF current_step.type = "approval"
        THEN IF ApprovalError(inputs) # "" THEN Invalid("ValueError", ApprovalError(inputs))
             ELSE Valid(merged([run EXCEPT
                        !.context.runtime = RecordDecision(@, run.current_step \o "_approval",
                                                           inputs["approval"]),
                        !.current_step = current_step.next], inputs))
        ELSE Valid(merged(run, inputs))

ResumeRun(c, run_id, inputs) ==
    /\ Ready(c)
    /\ Recorded(RunIds) < MaxHistory
    /\ LET call == Call("resume", RunArgs(run_id, inputs), "loop", EmptyRun) IN
       IF ResumeError(run_id) # ""
       THEN /\ calls' = [calls EXCEPT ![c] =
                   Done(call, RaisedError(run_id, ResumeError(run_id), "ValueError",
                                          ResumeError(run_id), "resume_run"))]
            /\ UNCHANGED runs
       ELSE LET applied == ApplyInputs(runs[run_id], inputs) IN
            IF ~applied.ok
            THEN /\ calls' = [calls EXCEPT ![c] =
                        Done(call, RaisedError(run_id, "Invalid", applied.exc, applied.msg,
                                               "validate"))]
                 /\ UNCHANGED runs
            ELSE LET sess == [applied.value EXCEPT !.status = "running"] IN
                 /\ runs' = [runs EXCEPT ![run_id] =
                        Commit(runs[run_id], sess, {"status", "current_step", "context"})]
                 /\ calls' = [calls EXCEPT ![c] = [call EXCEPT !.sess = sess]]
    /\ UNCHANGED <<history, minted>>
    /\ UNCHANGED workflow_table

\* ------------------------------------------------- cancel_execution (router)
\* a cancel check that refuses completed runs only
CancelErrorCompletedOnly(run_id) ==
    IF run_id \notin RunIds THEN "NotFound"
    ELSE IF runs[run_id].status = "completed" THEN "Conflict"
    ELSE ""

CancelError(run_id) ==
    IF run_id \notin RunIds THEN "NotFound"
    ELSE IF runs[run_id].status \in {"completed", "failed", "canceled"} THEN "Conflict"
    ELSE ""

CancelRun(c, run_id) ==
    /\ Ready(c)
    /\ Recorded(RunIds) < MaxHistory
    /\ LET call == Call("cancel", RunArgs(run_id, EmptyMap), "done", EmptyRun) IN
       IF CancelError(run_id) # ""
       THEN /\ calls' = [calls EXCEPT ![c] =
                   Done(call, RaisedError(run_id, CancelError(run_id), "HTTPException",
                                          CancelError(run_id), "cancel_execution"))]
            /\ UNCHANGED runs
       ELSE /\ runs' = [runs EXCEPT ![run_id].status = "canceled"]
            /\ calls' = [calls EXCEPT ![c] = Done(call, ReturnedRun(run_id, "cancel_execution"))]
    /\ UNCHANGED <<history, minted>>
    /\ UNCHANGED workflow_table

\* ------------------------------------------------- get_run_history (router)
\* the orders in which the rows of run_id can come out of ORDER BY started_at
\* and the sort on started_at that follows it
SortedByStartedAt(run_id) ==
    LET n == Len(history[run_id]) IN
    { p \in Permutations(1..n) :
        \A i, j \in 1..n :
           i < j => history[run_id][p[i]].started_at <= history[run_id][p[j]].started_at }

\* the step lists get_run_history can return for run_id
GetHistory(run_id) ==
    { [k \in 1..Len(history[run_id]) |-> history[run_id][p[k]]] : p \in SortedByStartedAt(run_id) }

\* ------------------------------------------------------------ specification
Begin(c) ==
    \/ \E w \in WorkflowIds \cup {MissingWorkflow}, i \in StartInputs, k \in Keys :
          StartRun(c, w, i, k)
    \/ \E id \in 1..MaxRuns, i \in ResumeInputs : ResumeRun(c, id, i)
    \/ \E id \in 1..MaxRuns : CancelRun(c, id)

Continue(c) == ExecuteWorkflow(c) \/ CompleteRun(c)

\* the request is over: its session is closed and the caller has the result
Release(c) ==
    /\ calls[c].pc = "done"
    /\ calls' = [calls EXCEPT ![c] = Idle]
    /\ UNCHANGED <<runs, history, minted>>
    /\ UNCHANGED workflow_table

\* calls issued one after another by one caller
Next == \E c \in Sequential : Begin(c) \/ Continue(c) \/ Release(c)

Spec == Init /\ [][Next]_vars

\* a call that has entered _execute_workflow runs on to its return or raise
Fairness == \A c \in Sequential : WF_vars(Continue(c))

SpecLive == Spec /\ Fairness

\* a second client, on a session of its own, whose requests are cancels
Cancellers == Callers \ Sequential

\* cancel requests of the second client arrive between any two commits of the
\* first client's advance loop
NextConcurrent ==
    \/ Next
    \/ \E c \in Cancellers : (\E id \in 1..MaxRuns : CancelRun(c, id)) \/ Release(c)

SpecConcurrent == Init /\ [][NextConcurrent]_vars

\* ---------------------------------------- start_run on concurrent sessions
\* inserts other callers have pending that will each add a row besides one for key
PendingInserts(c, key) ==
    Cardinality({d \in Callers \ {c} :
                    /\ calls[d].pc = "insert"
                    /\ (key = None \/ calls[d].args.idempotency_key # key)})

\* start_run up to the construction of the Run: the select on idempotency_key
\* and the workflow lookup
StartRunCheck(c, workflow_id, inputs, idempotency_key) ==
    /\ Ready(c)
    /\ LET call == Call("start", StartArgs(workflow_id, inputs, idempotency_key), "insert", EmptyRun)
           existing == ExistingRun(idempotency_key)
       IN  IF existing # 0
           THEN calls' = [calls EXCEPT ![c] = Done(call, ReturnedRun(existing, "existing_run"))]
           ELSE IF workflow_id \notin WorkflowIds
           THEN calls' = [calls EXCEPT ![c] =
                   Done(call, RaisedError(0, "NotFound", "ValueError", "Workflow not found",
                                          "start_run"))]
           ELSE /\ Len(runs) + PendingInserts(c, idempotency_key) < MaxRuns
                /\ Recorded(RunIds) < MaxHistory
                /\ calls' = [calls EXCEPT ![c] = call]
    /\ UNCHANGED <<runs, history, minted>>
    /\ UNCHANGED workflow_table

\* session.add(run); session.commit(): the insert under the unique constraint
\* on idempotency_key, whose violation leaves start_run as IntegrityError
StartRunInsert(c) ==
    /\ calls[c].pc = "insert"
    /\ LET args == calls[c].args IN
       IF args.idempotency_key # None /\ RunsWithKey(args.idempotency_key) # {}
       THEN /\ calls' = [calls EXCEPT ![c] =
                   Done(@, RaisedError(0, "Integrity", "IntegrityError",
                                       "UNIQUE constraint failed", "start_run"))]
            /\ UNCHANGED <<runs, history>>
       ELSE LET run == NewRun(Len(runs) + 1, args.workflow_id, args.inputs, args.idempotency_key) IN
            /\ runs' = Append(runs, run)
            /\ history' = Append(history, <<>>)
            /\ calls' = [calls EXCEPT ![c] = [@ EXCEPT !.pc = "loop", !.sess = run, !.args = Kept(@)]]
    /\ UNCHANGED minted
    /\ UNCHANGED workflow_table

\* start calls of two clients, each on a session of its own
NextRace ==
    \E c \in Callers :
       \/ \E w \in WorkflowIds \cup {MissingWorkflow}, i \in StartInputs, k \in Keys :
             StartRunCheck(c, w, i, k)
       \/ StartRunInsert(c)
       \/ Continue(c)
       \/ Release(c)

SpecRace == Init /\ [][NextRace]_vars

\* --------------------------------------- resume_run on concurrent sessions
\* resume_run up to its two checks: the select of the Run row and the tests of
\* existence and of status = waiting; the session keeps the row as it read it
ResumeRunRead(c, run_id, inputs) ==
    /\ Ready(c)
    /\ Recorded(RunIds) < MaxHistory
    /\ LET call == Call("resume", RunArgs(run_id, inputs), "resume", EmptyRun) IN
       IF ResumeError(run_id) # ""
       THEN calls' = [calls EXCEPT ![c] =
               Done(call, RaisedError(run_id, ResumeError(run_id), "ValueError",
                                      ResumeError(run_id), "resume_run"))]
       ELSE calls' = [calls EXCEPT ![c] = [call EXCEPT !.sess = runs[run_id]]]
    /\ UNCHANGED <<runs, history, minted>>
    /\ UNCHANGED workflow_table

\* the rest of resume_run up to the call of _execute_workflow: the "if inputs:"
\* block on the row as read, status = running, and the commit of what changed
ResumeRunCommit(c) ==
    /\ calls[c].pc = "resume"
    /\ LET run_id == calls[c].args.run_id
           inputs == calls[c].args.inputs
           applied == ApplyInputs(calls[c].sess, inputs)
       IN  IF ~applied.ok
           THEN /\ calls' = [calls EXCEPT ![c] =
                       Done(@, RaisedError(run_id, "Invalid", applied.exc, applied.msg,
                                           "validate"))]
                /\ UNCHANGED runs
           ELSE LET sess == [applied.value EXCEPT !.status = "running"]
                    dirty == {"status"}
                             \cup (IF sess.current_step # calls[c].sess.current_step
                                   THEN {"current_step"} ELSE {})
                             \cup (IF DOMAIN inputs # {} THEN {"context"} ELSE {})
                IN  /\ runs' = [runs EXCEPT ![run_id] = Commit(runs[run_id], sess, dirty)]
                    /\ calls' = [calls EXCEPT ![c] = [@ EXCEPT !.pc = "loop", !.sess = sess]]
    /\ UNCHANGED <<history, minted>>
    /\ UNCHANGED workflow_table

\* resume calls of two clients, each on a session of its own, for runs one
\* of them has started
NextResumeRace ==
    \/ \E c \in Sequential :
          \E w \in WorkflowIds \cup {MissingWorkflow}, i \in StartInputs, k \in Keys :
             StartRun(c, w, i, k)
    \/ \E c \in Callers :
          \/ \E id \in 1..MaxRuns, i \in ResumeInputs : ResumeRunRead(c, id, i)
          \/ ResumeRunCommit(c)
          \/ Continue(c)
          \/ Release(c)

SpecResumeRace == Init /\ [][NextResumeRace]_vars

\* ------------------------------------- two runs given the same requests
\* the caller that owns run id
Owner(id) == IF id = 1 THEN "c1" ELSE "c2"

\* two start_run calls with the same workflow and inputs and no idempotency
\* key: each creates a run of its own and enters the advance loop
TwinStart(workflow_id, inputs) ==
    /\ runs = <<>>
    /\ \A c \in Callers : Ready(c)
    /\ LET run(id) == NewRun(id, workflow_id, inputs, None) IN
       /\ runs' = <<run(1), run(2)>>
       /\ history' = <<<<>>, <<>>>>
       /\ calls' = [c \in Callers |->
              Call("start", NoArgs, "loop", run(IF c = Owner(1) THEN 1 ELSE 2))]
    /\ UNCHANGED <<minted, workflow_table>>

\* resume_run of one call, as in ResumeRun: the call record it leaves
TwinResumeCall(run_id, inputs) ==
    LET call == Call("resume", RunArgs(run_id, inputs), "loop", EmptyRun)
        applied == ApplyInputs(runs[run_id], inputs)
    IN  IF ResumeError(run_id) # ""
        THEN Done(call, RaisedError(run_id, ResumeError(run_id), "ValueError",
                                    ResumeError(run_id), "resume_run"))
        ELSE IF ~applied.ok
        THEN Done(call, RaisedError(run_id, "Invalid", applied.exc, applied.msg, "validate"))
        ELSE [call EXCEPT !.sess = [applied.value EXCEPT !.status = "running"]]

\* ... and the row it commits
TwinResumeRow(run_id, inputs) ==
    IF ResumeError(run_id) # "" \/ ~ApplyInputs(runs[run_id], inputs).ok
    THEN runs[run_id]
    ELSE Commit(runs[run_id], TwinResumeCall(run_id, inputs).sess,
                {"status", "current_step", "context"})

\* two resume_run calls with the same inputs, one for each of the two runs
TwinResume(inputs) ==
    /\ Len(runs) = 2
    /\ \A c \in Callers : Ready(c)
    /\ \A id \in RunIds : Len(history[id]) < MaxHistory
    /\ runs' = [id \in RunIds |-> TwinResumeRow(id, inputs)]
    /\ calls' = [c \in Callers |-> TwinResumeCall(IF c = Owner(1) THEN 1 ELSE 2, inputs)]
    /\ UNCHANGED <<history, minted, workflow_table>>

\* the two calls of a pair are served one after the other
Served(c) == c \in Sequential \/ \A d \in Sequential : Free(d)

TwinContinue(c) == Served(c) /\ Continue(c)
TwinRelease(c) == Served(c) /\ Release(c)

NextTwin ==
    \/ \E w \in WorkflowIds, i \in StartInputs : TwinStart(w, i)
    \/ \E i \in ResumeInputs : TwinResume(i)
    \/ \E c \in Callers : TwinContinue(c) \/ TwinRelease(c)

SpecTwin == Init /\ [][NextTwin]_vars

\* ------------------------------------------------------- workflows (router)
\* request bodies: steps over two step ids, each with next empty or one of the
\* two ids; step lists of up to two steps, the empty list included
StepIds == {"a", "b"}
Names == {"draft", "final"}
StepDefs == [id : StepIds, next : StepIds \cup {None}]
StepLists == {<<>>} \cup {<<s>> : s \in StepDefs} \cup {<<s, t>> : s, t \in StepDefs}

\* a field of WorkflowUpdate left out of the body; None is an explicit null
Unset == "unset"
\* the steps field of WorkflowUpdate: left out, null, or a list
NoSteps(given) == [given |-> given, list |-> <<>>]
GivenSteps(list) == [given |-> "list", list |-> list]

WorkflowCreates == [name : Names, start_step : StepIds, steps : StepLists]
WorkflowUpdates ==
    [name : Names \cup {None, Unset},
     start_step : StepIds \cup {None, Unset},
     steps : {NoSteps(Unset), NoSteps(None)} \cup {GivenSteps(l) : l \in StepLists}]

\* the Step row written for a step of the body
StepRow(step_def) ==
    [step_id |-> step_def.id, type |-> "conditional", next |-> step_def.next,
     config |-> [when |-> ExprTrue]]
StepRows(steps) == [n \in 1..Len(steps) |-> StepRow(steps[n])]
BodyStepIds(steps) == {steps[n].id : n \in 1..Len(steps)}
RowStepIds(rows) == {rows[n].step_id : n \in 1..Len(rows)}

\* the id of the step whose next is in no step of the list, None if there is none
BadNext(steps) ==
    LET bad == {n \in 1..Len(steps) :
                   steps[n].next # None /\ steps[n].next \notin BodyStepIds(steps)}
    IN  IF bad = {} THEN None
        ELSE steps[CHOOSE n \in bad : \A m \in bad : n <= m].id

\* the outcome of a router call names the workflow row in its id field
WorkflowReturned(workflow_id, at) == ReturnedRun(workflow_id, at)
HTTPError(error, detail, at) == RaisedError(0, error, "HTTPException", detail, at)

\* the checks of create_workflow: "" when the body passes them
CreateError(workflow_data) ==
    IF workflow_data.steps = <<>> THEN "Workflow must have at least one step"
    ELSE IF workflow_data.start_step \notin BodyStepIds(workflow_data.steps)
    THEN "Start step not found in workflow steps"
    ELSE IF BadNext(workflow_data.steps) # None
    THEN "Step references non-existent next step"
    ELSE ""

create_workflow(c, workflow_data) ==
    /\ Ready(c)
    /\ Len(workflow_table) < MaxWorkflows
    /\ LET call == Call("create_workflow", NoArgs, "done", EmptyRun) IN
       IF CreateError(workflow_data) # ""
       THEN /\ calls' = [calls EXCEPT ![c] =
                   Done(call, HTTPError("Invalid", CreateError(workflow_data), "create_workflow"))]
            /\ UNCHANGED workflow_table
       ELSE /\ workflow_table' = Append(workflow_table,
                   [id |-> Len(workflow_table) + 1, version |-> 1, name |-> workflow_data.name,
                    start_step |-> workflow_data.start_step,
                    steps |-> StepRows(workflow_data.steps)])
            /\ calls' = [calls EXCEPT ![c] =
                   Done(call, WorkflowReturned(Len(workflow_table) + 1, "create_workflow"))]
    /\ UNCHANGED <<runs, history, minted>>

\* the step ids update_workflow checks a new start_step against: those of the
\* body's steps when the list is given and not empty, else those of the rows
StartStepIds(existing, workflow_update) ==
    IF workflow_update.steps.given = "list" /\ workflow_update.steps.list # <<>>
    THEN BodyStepIds(workflow_update.steps.list)
    ELSE RowStepIds(existing.steps)

\* the checks of update_workflow on an existing row: "" when the body passes them
UpdateError(existing, workflow_update) ==
    IF /\ workflow_update.name = Unset
       /\ workflow_update.start_step = Unset
       /\ workflow_update.steps.given = Unset
    THEN "No fields to update"
    ELSE IF /\ workflow_update.start_step \notin {None, Unset}
            /\ workflow_update.start_step \notin StartStepIds(existing, workflow_update)
    THEN "Start step not found in workflow steps"
    ELSE IF workflow_update.steps.given = "list" /\ BadNext(workflow_update.steps.list) # None
    THEN "Step references non-existent next step"
    ELSE ""

\* the row update_workflow commits
UpdatedRow(existing, workflow_update) ==
    [existing EXCEPT
        !.name = IF workflow_update.name \notin {None, Unset} THEN workflow_update.name ELSE @,
        !.start_step = IF workflow_update.start_step \notin {None, Unset}
                       THEN workflow_update.start_step ELSE @,
        !.steps = IF workflow_update.steps.given = "list"
                  THEN StepRows(workflow_update.steps.list) ELSE @,
        !.version = @ + 1]

update_workflow(c, workflow_id, workflow_update) ==
    /\ Ready(c)
    /\ LET call == Call("update_workflow", NoArgs, "done", EmptyRun) IN
       IF workflow_id \notin 1..Len(workflow_table)
       THEN /\ calls' = [calls EXCEPT ![c] =
                   Done(call, HTTPError("NotFound", "Workflow not found", "update_workflow"))]
            /\ UNCHANGED workflow_table
       ELSE IF UpdateError(workflow_table[workflow_id], workflow_update) # ""
       THEN /\ calls' = [calls EXCEPT ![c] =
                   Done(call, HTTPError("Invalid",
                                        UpdateError(workflow_table[workflow_id], workflow_update),
                                        "update_workflow"))]
            /\ UNCHANGED workflow_table
       ELSE /\ workflow_table[workflow_id].version < MaxVersion
            /\ workflow_table' = [workflow_table EXCEPT ![workflow_id] =
                                      UpdatedRow(@, workflow_update)]
            /\ calls' = [calls EXCEPT ![c] =
                   Done(call, WorkflowReturned(workflow_id, "update_workflow"))]
    /\ UNCHANGED <<runs, history, minted>>

\* creates and updates of workflows issued one after another by one caller
NextStore ==
    \E c \in Sequential :
       \/ \E workflow_data \in WorkflowCreates : create_workflow(c, workflow_data)
       \/ \E workflow_id \in 1..(MaxWorkflows + 1), workflow_update \in WorkflowUpdates :
             update_workflow(c, workflow_id, workflow_update)
       \/ Release(c)

SpecStore == Init /\ [][NextStore]_vars

\* -------------------------------------------------------------- properties
Last(seq) == seq[Len(seq)]
WorkflowOf(id) == Workflow(runs[id].workflow_id)
\* the step definition run id is positioned at, NoStep when current_step names none
StepOfRun(id) == StepMapGet(WorkflowOf(id), runs[id].current_step)
AtRest == \A c \in Callers : Free(c)
StartWorkflows == WorkflowIds \cup {MissingWorkflow}

C2_ExecutorFailure ==
    [][/\ \A c \in Callers :
            LET id == calls[c].sess.id
                step == StepMapGet(Workflow(calls[c].sess.workflow_id), calls[c].sess.current_step)
                out == ExecuteStep(calls[c].sess.context, step, NoOuts, minted + 1)
            IN  (calls[c].pc = "loop" /\ calls'[c] # calls[c] /\ step # NoStep /\ out.raised)
                  => /\ Len(history'[id]) = Len(history[id]) + 1
                     /\ SubSeq(history'[id], 1, Len(history[id])) = history[id]
                     /\ Last(history'[id]).status = "failed"
                     /\ Last(history'[id]).step_id = step.step_id
                     /\ Last(history'[id]).error = out.msg
                     /\ out.msg # ""
                     /\ runs'[id] = [runs[id] EXCEPT !.status = "failed"]
                     /\ runs'[id].current_step = step.step_id
                     /\ calls'[c].pc = "done"
                     /\ calls'[c].outcome.kind = "raised"
                     /\ calls'[c].outcome.exc = out.exc
                     /\ calls'[c].outcome.msg = out.msg
       /\ \A id \in RunIds :
            runs[id].status = "failed" => (history'[id] = history[id] /\ runs'[id] = runs[id])
      ]_vars

\* a call has ended with the NameError of a conditional step, the run failed
C2_Witness ==
    \E c \in Callers :
        /\ calls[c].pc = "done" /\ calls[c].outcome.at = "executor"
        /\ calls[c].outcome.exc = "NameError"
        /\ runs[calls[c].outcome.run_id].status = "failed"

\* C3: a ResumeRun on a run waiting at form step f, given inputs that pass
\* field validation, moves current_step to f.next before the advance loop is
\* re-entered (so f is not executed again).
C3_FormResumeAdvances ==
    [][\A c \in Callers :
          (Free(c) /\ calls'[c].op = "resume") =>
             \A id \in RunIds :
                (runs[id].status = "waiting" /\ StepOfRun(id).type = "form") =>
                   \A i \in ResumeInputs :
                      (validate_fields(StepOfRun(id).config, i).ok /\ ResumeRun(c, id, i))
                         => /\ calls'[c].pc = "loop"
                            /\ calls'[c].sess.current_step = StepOfRun(id).next
                            /\ runs'[id].current_step = StepOfRun(id).next]_vars

\* C4: a ResumeRun that has returned after advancing past a paused form or
\* approval step whose next is empty (the run's last RunStep is that step's
\* pause record) leaves the run completed with current_step empty.
C4_TerminalResumeCompletes ==
    \A c \in Callers :
        LET id == calls[c].outcome.run_id IN
        (/\ calls[c].op = "resume" /\ calls[c].pc = "done"
         /\ calls[c].outcome.kind = "returned"
         /\ history[id] # <<>>
         /\ Last(history[id]).type \in {"form", "approval"}
         /\ Pause(Last(history[id]).output)
         /\ StepMapGet(WorkflowOf(id), Last(history[id]).step_id).next = None
         /\ runs[id].current_step # Last(history[id]).step_id)
           => (runs[id].status = "completed" /\ runs[id].current_step = None)

\* C5: a ResumeRun (the step a free caller takes into a resume call) naming no
\* existing run fails with NotFound, one naming a run whose status is not
\* waiting fails with Conflict, and either way no Run row and no RunStep
\* changes and no executor is invoked.
C5_ResumeRejected ==
    [][\A c \in Callers :
          LET id == calls'[c].args.run_id IN
          (/\ Free(c) /\ calls'[c].op = "resume"
           /\ id \notin RunIds \/ runs[id].status # "waiting")
             => /\ calls'[c].pc = "done"
                /\ calls'[c].outcome.kind = "raised"
                /\ calls'[c].outcome.error = (IF id \in RunIds THEN "Conflict" ELSE "NotFound")
                /\ UNCHANGED <<runs, history, minted>>]_vars

\* a resume of a run that is not waiting has been rejected with Conflict
C5_Witness ==
    \E c \in Callers :
        /\ calls[c].op = "resume" /\ calls[c].pc = "done"
        /\ calls[c].outcome.error = "Conflict"
        /\ runs[calls[c].outcome.run_id].status \in {"completed", "failed", "canceled", "running"}

\* C6: a run whose committed status is running has a current_step.
C6_RunningHasStep ==
    \A id \in RunIds : runs[id].status = "running" => runs[id].current_step # None

\* C7: a run whose status is waiting is positioned at a step of its workflow
\* that is a form step, an approval step, or an ai_generate step whose last
\* execution exhausted its attempts; the last RunStep of the run is the pause
\* record of exactly that step.
C7_WaitingAtPausedStep ==
    \A id \in RunIds :
        runs[id].status = "waiting" =>
            /\ runs[id].current_step # None
            /\ StepOfRun(id) # NoStep
            /\ StepOfRun(id).type \in {"form", "approval", "ai_generate"}
            /\ history[id] # <<>>
            /\ Last(history[id]).step_id = runs[id].current_step
            /\ Last(history[id]).type = StepOfRun(id).type
            /\ Last(history[id]).status = "completed"
            /\ Pause(Last(history[id]).output)
            /\ Last(history[id]).output.waiting_for =
                   (IF StepOfRun(id).type = "ai_generate" THEN "manual_fix" ELSE StepOfRun(id).type)
            /\ StepOfRun(id).type = "ai_generate" =>
                   Last(history[id]).output.retry_count = MAX_RETRIES + 1

\* a run waits at an ai_generate step that exhausted its attempts
C7_Witness ==
    \E id \in RunIds :
        /\ runs[id].status = "waiting"
        /\ StepOfRun(id).type = "ai_generate"
        /\ Last(history[id]).output.waiting_for = "manual_fix"

\* C8: between calls, a run is completed exactly when its current_step is
\* empty and the last step it recorded has an empty next.
C8_CompletedIffDone ==
    AtRest =>
        \A id \in RunIds :
            runs[id].status = "completed" <=>
                /\ runs[id].current_step = None
                /\ history[id] # <<>>
                /\ StepMapGet(WorkflowOf(id), Last(history[id]).step_id) # NoStep
                /\ StepMapGet(WorkflowOf(id), Last(history[id]).step_id).next = None

\* C9: a run that failed on the advance loop has a failed RunStep as its last
\* record, for the step it is positioned at, carrying the error; this includes
\* the failure on a current_step that names no step of the workflow.
C9_FailedHasFailedStep ==
    \A id \in RunIds :
        runs[id].status = "failed" =>
            /\ history[id] # <<>>
            /\ Last(history[id]).status = "failed"
            /\ Last(history[id]).step_id = runs[id].current_step
            /\ Last(history[id]).error # None

\* some field of the form rejects the inputs: a required key is absent, or a
\* key is present whose field type is unsupported or whose value is no string
FieldsFaulty(fields, inputs) ==
    \E n \in 1..Len(fields) :
        \/ fields[n].required /\ fields[n].key \notin DOMAIN inputs
        \/ /\ fields[n].key \in DOMAIN inputs
           /\ \/ fields[n].type \notin {"text", "textarea"}
              \/ inputs[fields[n].key].t # "str"

\* run id waits at a form step
WaitingAtForm(id) == runs[id].status = "waiting" /\ StepOfRun(id).type = "form"

\* C10 (as claimed, on a non-empty inputs map): a ResumeRun whose inputs fail
\* the form's field validation fails the run: status failed and a failed
\* RunStep recorded for the form step.
C10_ValidationFailsRun ==
    [][\A c \in Callers :
          (Free(c) /\ calls'[c].op = "resume") =>
             \A id \in RunIds :
                WaitingAtForm(id) =>
                   \A i \in ResumeInputs :
                      (/\ calls'[c].args.run_id = id
                       /\ DOMAIN i # {}
                       /\ FieldsFaulty(StepOfRun(id).config.fields, i)
                       /\ ResumeRun(c, id, i))
                         => /\ calls'[c].outcome.kind = "raised"
                            /\ runs'[id].status = "failed"
                            /\ Len(history'[id]) = Len(history[id]) + 1
                            /\ Last(history'[id]).status = "failed"]_vars

\* C10 (amended): a ResumeRun whose non-empty inputs fail the form's field
\* validation is rejected with a validation error before anything is written:
\* the run stays waiting at the form step with its row and history unchanged,
\* no RunStep is recorded and no executor is invoked.
C10_ValidationRejectsResume ==
    [][\A c \in Callers :
          (Free(c) /\ calls'[c].op = "resume") =>
             \A id \in RunIds :
                WaitingAtForm(id) =>
                   \A i \in ResumeInputs :
                      (/\ calls'[c].args.run_id = id
                       /\ DOMAIN i # {}
                       /\ FieldsFaulty(StepOfRun(id).config.fields, i)
                       /\ ResumeRun(c, id, i))
                         => /\ calls'[c].pc = "done"
                            /\ calls'[c].outcome.kind = "raised"
                            /\ calls'[c].outcome.error = "Invalid"
                            /\ runs'[id].status = "waiting"
                            /\ UNCHANGED <<runs, history, minted>>]_vars

\* a resume has been rejected by field validation and the run still waits at
\* the form step
C10_Witness ==
    \E c \in Callers :
        /\ calls[c].op = "resume" /\ calls[c].pc = "done"
        /\ calls[c].outcome.at = "validate"
        /\ runs[calls[c].outcome.run_id].status = "waiting"
        /\ StepOfRun(calls[c].outcome.run_id).type = "form"

\* C11: a ResumeRun on a run waiting at a form step with an inputs map that
\* lacks a field the form marks required (the empty map, which is also what an
\* omitted inputs argument amounts to, included) fails with Invalid: the run is
\* not advanced, no step is executed and nothing is appended to the history.
C11_MissingRequiredRejected ==
    [][\A c \in Callers :
          (Free(c) /\ calls'[c].op = "resume") =>
             \A id \in RunIds :
                WaitingAtForm(id) =>
                   \A i \in ResumeInputs :
                      (/\ calls'[c].args.run_id = id
                       /\ \E n \in 1..Len(StepOfRun(id).config.fields) :
                             /\ StepOfRun(id).config.fields[n].required
                             /\ StepOfRun(id).config.fields[n].key \notin DOMAIN i
                       /\ ResumeRun(c, id, i))
                         => /\ calls'[c].pc = "done"
                            /\ calls'[c].outcome.kind = "raised"
                            /\ calls'[c].outcome.error = "Invalid"
                            /\ UNCHANGED <<runs, history, minted>>]_vars

\* the step a caller takes into a resume call that is accepted for run id
\* waiting at an approval step, with a payload that carries a decision
ApprovalResumed(c, id) ==
    /\ Free(c) /\ calls'[c].op = "resume" /\ calls'[c].pc = "loop"
    /\ calls'[c].args.run_id = id
    /\ runs[id].status = "waiting"
    /\ StepOfRun(id).type = "approval"
    /\ "approval" \in DOMAIN calls'[c].args.inputs

\* C12: after an accepted ResumeRun on a run waiting at approval step s, the
\* record at context.runtime[<s>_approval] has status approved or rejected as
\* approval.approved is true or false, comments as given ("" when absent), and
\* the token and approvers written at the pause, whatever other keys the
\* payload carries.
C12_DecisionRecorded ==
    [][\A c \in Callers, id \in RunIds :
          ApprovalResumed(c, id) =>
             LET key == runs[id].current_step \o "_approval"
                 decision == calls'[c].args.inputs["approval"].m
                 old == runs[id].context.runtime[key]
                 new == runs'[id].context.runtime[key]
             IN  /\ new.t = "map"
                 /\ decision["approved"] = Bool(TRUE) => new.m["status"] = Str("approved")
                 /\ decision["approved"] = Bool(FALSE) => new.m["status"] = Str("rejected")
                 /\ new.m["comments"] = (IF "comments" \in DOMAIN decision
                                         THEN decision["comments"] ELSE Str(""))
                 /\ new.m["token"] = old.m["token"]
                 /\ new.m["approvers"] = old.m["approvers"]]_vars

\* the payload carries no decision: no approval entry, an approval that is no
\* object, or an approval without an approved field of boolean type
NoDecision(inputs) ==
    \/ "approval" \notin DOMAIN inputs
    \/ inputs["approval"].t # "map"
    \/ "approved" \notin DOMAIN inputs["approval"].m
    \/ inputs["approval"].m["approved"].t # "bool"

\* run id waits at an approval step
WaitingAtApproval(id) == runs[id].status = "waiting" /\ StepOfRun(id).type = "approval"

\* C13 (on a non-empty payload): a ResumeRun on a run waiting at an approval
\* step whose payload carries no decision is rejected with Invalid; the run still waits at the same step,
\* its approval record (status pending, token) and its history are unchanged.
C13_NoDecisionRejected ==
    [][\A c \in Callers :
          (Free(c) /\ calls'[c].op = "resume") =>
             \A id \in RunIds :
                WaitingAtApproval(id) =>
                   \A i \in ResumeInputs :
                      (/\ calls'[c].args.run_id = id
                       /\ DOMAIN i # {}
                       /\ NoDecision(i)
                       /\ ResumeRun(c, id, i))
                         => /\ calls'[c].pc = "done"
                            /\ calls'[c].outcome.kind = "raised"
                            /\ calls'[c].outcome.error = "Invalid"
                            /\ runs'[id].status = "waiting"
                            /\ UNCHANGED <<runs, history, minted>>]_vars

\* C14: a ResumeRun on a run waiting at an approval step with approved = false
\* moves current_step to the step's next and leaves the run running, as it
\* does for approved = true, without touching the history; the advance loop
\* of that call then executes the step it finds there and records it.
C14_RejectionAdvances ==
    [][\A c \in Callers :
          /\ \A id \in RunIds :
                (/\ ApprovalResumed(c, id)
                 /\ "approved" \in DOMAIN calls'[c].args.inputs["approval"].m
                 /\ calls'[c].args.inputs["approval"].m["approved"] \in {Bool(FALSE), Bool(TRUE)})
                   => /\ runs'[id].current_step = StepOfRun(id).next
                      /\ calls'[c].sess.current_step = StepOfRun(id).next
                      /\ runs'[id].status = "running"
                      /\ history' = history
          /\ LET id == calls[c].sess.id
                 step == StepMapGet(Workflow(calls[c].sess.workflow_id), calls[c].sess.current_step)
             IN  (/\ calls[c].op = "resume" /\ calls[c].pc = "loop"
                  /\ calls'[c] # calls[c]
                  /\ "approval" \in DOMAIN calls[c].args.inputs
                  /\ calls[c].args.inputs["approval"] = Map([approved |-> Bool(FALSE)])
                  /\ step # NoStep)
                    => /\ Len(history'[id]) = Len(history[id]) + 1
                       /\ Last(history'[id]).step_id = step.step_id
                       /\ runs'[id].status \notin {"failed", "canceled"}]_vars

\* a run continued past a rejected approval and waits at the form that follows
C14_Witness ==
    \E id \in RunIds :
        /\ runs[id].workflow_id = "gate"
        /\ runs[id].status = "waiting"
        /\ runs[id].current_step = "f"
        /\ runs[id].context.runtime["a_approval"].m["status"] = Str("rejected")
        /\ Len(history[id]) = 2

\* every course the provider calls of one execution can take
AllProviderRuns == [1..(MAX_RETRIES + 1) -> ProviderOutcomes]

\* the provider call returned an object that conforms to the step's schema
Passes(outcome, config) ==
    /\ outcome.kind = "object"
    /\ outcome.obj.t = "map"
    /\ \A k \in config.json_schema.required : k \in DOMAIN outcome.obj.m

\* the first call whose result passes, 0 when none does
FirstPassing(outs, config) ==
    IF \E k \in DOMAIN outs : Passes(outs[k], config)
    THEN CHOOSE k \in DOMAIN outs :
            Passes(outs[k], config) /\ \A j \in 1..(k - 1) : ~Passes(outs[j], config)
    ELSE 0

\* caller c is in the advance loop, about to execute an ai_generate step all of
\* whose variables the context holds
AtAIStep(c) ==
    LET step == StepMapGet(Workflow(calls[c].sess.workflow_id), calls[c].sess.current_step) IN
    /\ calls[c].pc = "loop"
    /\ calls[c].sess.current_step # None
    /\ step.type = "ai_generate"
    /\ \A n \in 1..Len(step.config.variables) :
          \E layer \in {"static", "profile", "runtime"} :
             step.config.variables[n] \in DOMAIN calls[c].sess.context[layer]

C16_FirstValidWins ==
    \A c \in Callers :
        AtAIStep(c) =>
            LET step == StepMapGet(Workflow(calls[c].sess.workflow_id), calls[c].sess.current_step)
                context == calls[c].sess.context
                key == step.step_id \o "_output"
            IN  \A outs \in AllProviderRuns :
                    LET r == AIExecute(step.config, context, step.step_id, outs)
                        k == FirstPassing(outs, step.config)
                    IN  IF k > 0
                        THEN /\ r.calls = k
                             /\ r.result.pause = FALSE
                             /\ r.result.output = outs[k].obj
                             /\ r.result.retry_count = k - 1
                             /\ key \in DOMAIN r.context.runtime
                             /\ r.context.runtime[key] = outs[k].obj
                             /\ \A other \in DOMAIN context.runtime \ {key} :
                                    r.context.runtime[other] = context.runtime[other]
                        ELSE r.context = context

\* the second provider call of an execution was the first to pass: the step is
\* recorded with retry_count 1 and its output is in the runtime context
C16_Witness ==
    \E id \in RunIds :
        /\ history[id] # <<>>
        /\ Last(history[id]).type = "ai_generate"
        /\ Last(history[id]).status = "completed"
        /\ ~Pause(Last(history[id]).output)
        /\ Last(history[id]).output.retry_count = 1
        /\ runs[id].context.runtime[Last(history[id]).step_id \o "_output"] = GoodObject

\* C17: a ResumeRun on a run waiting at an ai_generate step accepts any inputs,
\* merges them into context.runtime unvalidated, leaves current_step at that
\* step and sets the status to running; the advance loop of the call then
\* executes that step again with a full budget of attempts and appends a
\* further RunStep for it, and when the attempts fail again the run is back
\* to waiting at the same step.
C17_ManualFixReexecutes ==
    [][\A c \in Callers :
          /\ \A id \in RunIds :
                (/\ Free(c) /\ calls'[c].op = "resume"
                 /\ calls'[c].args.run_id = id
                 /\ runs[id].status = "waiting"
                 /\ StepOfRun(id).type = "ai_generate")
                   => LET inputs == calls'[c].args.inputs
                          old == runs[id].context.runtime
                          new == runs'[id].context.runtime
                      IN  /\ calls'[c].pc = "loop"
                          /\ DOMAIN new = DOMAIN old \cup DOMAIN inputs
                          /\ \A k \in DOMAIN inputs : new[k] = inputs[k]
                          /\ \A k \in DOMAIN old \ DOMAIN inputs : new[k] = old[k]
                          /\ runs'[id].current_step = runs[id].current_step
                          /\ runs'[id].status = "running"
                          /\ history' = history
          /\ LET id == calls[c].sess.id IN
             (/\ calls[c].op = "resume"
              /\ AtAIStep(c)
              /\ history[id] # <<>>
              /\ Last(history[id]).step_id = calls[c].sess.current_step
              /\ calls'[c] # calls[c])
                => /\ Len(history'[id]) = Len(history[id]) + 1
                   /\ Last(history'[id]).step_id = calls[c].sess.current_step
                   /\ Last(history'[id]).status = "completed"
                   /\ Last(history'[id]).output.retry_count <= MAX_RETRIES + 1
                   /\ Pause(Last(history'[id]).output) =>
                         /\ Last(history'[id]).output.retry_count = MAX_RETRIES + 1
                         /\ runs'[id].status = "waiting"
                         /\ runs'[id].current_step = calls[c].sess.current_step
                   /\ ~Pause(Last(history'[id]).output) =>
                         runs'[id].current_step = StepOfRun(id).next]_vars

\* a run was resumed at an ai_generate step with a patch, the step was executed
\* a second time, failed again and the run waits at it again
C17_Witness ==
    \E id \in RunIds :
        /\ runs[id].status = "waiting"
        /\ StepOfRun(id).type = "ai_generate"
        /\ Len(history[id]) >= 2
        /\ history[id][Len(history[id]) - 1].step_id = runs[id].current_step
        /\ Pause(history[id][Len(history[id]) - 1].output)
        /\ Last(history[id]).output.waiting_for = "manual_fix"
        /\ "approval" \in DOMAIN runs[id].context.runtime

\* caller c is in the advance loop, about to execute an ai_generate step one of
\* whose variables is in none of static, profile and runtime
AtAIStepMissingVariable(c) ==
    LET step == StepMapGet(Workflow(calls[c].sess.workflow_id), calls[c].sess.current_step) IN
    /\ calls[c].pc = "loop"
    /\ calls[c].sess.current_step # None
    /\ step.type = "ai_generate"
    /\ \E n \in 1..Len(step.config.variables) :
          \A layer \in {"static", "profile", "runtime"} :
             step.config.variables[n] \notin DOMAIN calls[c].sess.context[layer]

\* C18: when a name of config.variables is in none of the three context
\* layers, the ai_generate executor raises ValueError without a provider call
\* and returns no pause, whatever the provider would do; the run becomes
\* failed with a failed RunStep for the step, not waiting.
C18_MissingVariableFails ==
    [][\A c \in Callers :
          AtAIStepMissingVariable(c) =>
             LET id == calls[c].sess.id
                 step == StepMapGet(Workflow(calls[c].sess.workflow_id), calls[c].sess.current_step)
             IN  /\ \A outs \in AllProviderRuns :
                       LET r == AIExecute(step.config, calls[c].sess.context, step.step_id, outs)
                       IN  r.raised /\ r.exc = "ValueError" /\ r.calls = 0
                 /\ calls'[c] # calls[c] =>
                       /\ runs'[id].status = "failed"
                       /\ Len(history'[id]) = Len(history[id]) + 1
                       /\ Last(history'[id]).status = "failed"
                       /\ Last(history'[id]).step_id = step.step_id
                       /\ calls'[c].pc = "done"
                       /\ calls'[c].outcome.kind = "raised"
                       /\ calls'[c].outcome.error = "Invalid"]_vars

\* a run failed at its ai_generate step for the missing variable name
C18_Witness ==
    \E id \in RunIds :
        /\ runs[id].status = "failed"
        /\ StepOfRun(id).type = "ai_generate"
        /\ Last(history[id]).status = "failed"
        /\ Last(history[id]).error = "Variable 'name' not found in context"
        /\ "name" \notin DOMAIN runs[id].context.runtime

\* caller c issues op in this step; the run it names is calls'[c].args.run_id
Issues(c, op) == Ready(c) /\ calls'[c].op = op /\ calls'[c].args.run_id \in RunIds

\* C19: a cancel of a running or waiting run sets its status to canceled and
\* nothing else; a cancel of a completed, failed or canceled run fails with
\* Conflict and leaves every run and the history as they were; no status
\* becomes canceled other than by such a cancel; and a resume of a canceled
\* run fails with Conflict and changes nothing.
C19_CancelTransition ==
    [][/\ \A c \in Callers :
             Issues(c, "cancel") =>
                LET id == calls'[c].args.run_id IN
                /\ runs[id].status \in {"running", "waiting"} =>
                      /\ runs' = [runs EXCEPT ![id].status = "canceled"]
                      /\ history' = history
                      /\ calls'[c].outcome.kind = "returned"
                /\ runs[id].status \in {"completed", "failed", "canceled"} =>
                      /\ calls'[c].outcome.kind = "raised"
                      /\ calls'[c].outcome.error = "Conflict"
                      /\ runs' = runs
                      /\ history' = history
       /\ \A id \in RunIds :
             (runs[id].status # "canceled" /\ runs'[id].status = "canceled") =>
                /\ runs[id].status \in {"running", "waiting"}
                /\ \E c \in Callers : Issues(c, "cancel") /\ calls'[c].args.run_id = id
       /\ \A c \in Callers :
             (Issues(c, "resume") /\ runs[calls'[c].args.run_id].status = "canceled") =>
                /\ calls'[c].outcome.kind = "raised"
                /\ calls'[c].outcome.error = "Conflict"
                /\ runs' = runs
                /\ history' = history]_vars

\* a resume of a canceled run was refused with Conflict
C19_Witness ==
    \E c \in Callers :
        /\ calls[c].pc = "done"
        /\ calls[c].op = "resume"
        /\ calls[c].args.run_id \in RunIds
        /\ runs[calls[c].args.run_id].status = "canceled"
        /\ calls[c].outcome.kind = "raised"
        /\ calls[c].outcome.error = "Conflict"

\* caller c's advance loop holds run id, whose row another session has canceled
LoopOverCanceled(c, id) ==
    /\ calls[c].pc = "loop"
    /\ calls[c].sess.id = id
    /\ runs[id].status = "canceled"

\* C20: once a cancel has committed, the run's status stays canceled; and an
\* advance loop that holds the canceled run finishes the step it has in
\* flight, writing at most that step's RunStep, and then stops: it executes
\* no further step and does not set waiting, completed or failed.
C20_CancelStopsLoop ==
    [][\A id \in RunIds :
          /\ runs[id].status = "canceled" => runs'[id].status = "canceled"
          /\ \A c \in Callers :
                (LoopOverCanceled(c, id) /\ calls'[c] # calls[c]) =>
                   /\ calls'[c].pc # "loop"
                   /\ Len(history'[id]) <= Len(history[id]) + 1]_vars

\* C21: of start calls with the same workflow_id and idempotency_key on
\* separate sessions, the one that reaches its insert after the other's run
\* exists returns that run and creates nothing, it does not fail; no key has
\* two Run rows; and no run is held by the advance loops of two calls.
C21_ConcurrentStartsAgree ==
    /\ [](/\ \A id1, id2 \in RunIds :
               (runs[id1].idempotency_key # None
                  /\ runs[id1].idempotency_key = runs[id2].idempotency_key) => id1 = id2
          /\ \A c, d \in Callers :
               (InFlight(c) /\ InFlight(d) /\ calls[c].sess.id # 0
                  /\ calls[c].sess.id = calls[d].sess.id) => c = d)
    /\ [][\A c \in Callers :
             LET key == calls[c].args.idempotency_key IN
             (/\ calls[c].pc = "insert" /\ calls'[c] # calls[c]
              /\ key # None
              /\ \E id \in RunsWithKey(key) : runs[id].workflow_id = calls[c].args.workflow_id)
                => /\ calls'[c].outcome.kind = "returned"
                   /\ calls'[c].outcome.run_id \in RunsWithKey(key)
                   /\ UNCHANGED <<runs, history>>]_vars

\* C22: a StartRun whose workflow_id names no workflow fails with NotFound,
\* returns no run and creates no Run row, whatever its idempotency_key.
C22_MissingWorkflowNotFound ==
    [][\A c \in Callers :
          (Ready(c) /\ calls'[c].op = "start") =>
             \A i \in StartInputs, k \in Keys :
                StartRun(c, MissingWorkflow, i, k)
                   => /\ calls'[c].outcome.kind = "raised"
                      /\ calls'[c].outcome.error = "NotFound"
                      /\ runs' = runs
                      /\ history' = history]_vars

\* the Workflow invariants: start_step is a step id, every next is empty or a step id
WellFormed(workflow) ==
    /\ HasStep(workflow, workflow.start_step)
    /\ \A n \in 1..Len(workflow.steps) :
          workflow.steps[n].next = None \/ HasStep(workflow, workflow.steps[n].next)

\* caller c's start or resume call went through the advance loop and is over
EndedInLoop(c) ==
    /\ calls[c].pc = "done"
    /\ calls[c].op \in {"start", "resume"}
    /\ calls[c].outcome.at \in {"pause", "completed", "executor", "lookup", "loop_exit"}

\* C23: on a workflow that satisfies the Workflow invariants, a StartRun that
\* has created its run and a ResumeRun that was accepted eventually return or
\* raise, and the run's status then is waiting, completed or failed.
C23_CallsEndAtRest ==
    /\ \A c \in Callers :
          (InFlight(c) /\ WellFormed(Workflow(calls[c].sess.workflow_id))) ~> Free(c)
    /\ [](\A c \in Callers :
            (EndedInLoop(c) /\ WellFormed(WorkflowOf(calls[c].outcome.run_id)))
               => runs[calls[c].outcome.run_id].status \in {"waiting", "completed", "failed"})

\* C24: a StartRun that creates a run creates it with status running,
\* current_step = the workflow's start_step, workflow_version = the
\* workflow's version, static and profile empty and runtime equal to the
\* inputs, and enters the advance loop at start_step; the first RunStep of
\* every run is that of start_step; and no run's workflow_id or
\* workflow_version ever changes.
C24_RunCreation ==
    /\ [](\A id \in RunIds :
            history[id] # <<>> => history[id][1].step_id = WorkflowOf(id).start_step)
    /\ [][/\ \A c \in Callers :
               (Ready(c) /\ calls'[c].op = "start" /\ Len(runs') = Len(runs) + 1) =>
                  LET id == Len(runs')
                      run == runs'[id]
                  IN  \A i \in StartInputs :
                         StartRun(c, run.workflow_id, i, run.idempotency_key) =>
                            /\ run.status = "running"
                            /\ run.current_step = Workflow(run.workflow_id).start_step
                            /\ run.workflow_version = Workflow(run.workflow_id).version
                            /\ run.context.static = EmptyMap
                            /\ run.context.profile = EmptyMap
                            /\ run.context.runtime = i
                            /\ history'[id] = <<>>
                            /\ calls'[c].pc = "loop"
                            /\ calls'[c].sess = run
          /\ \A id \in RunIds :
               /\ runs'[id].workflow_id = runs[id].workflow_id
               /\ runs'[id].workflow_version = runs[id].workflow_version]_vars

\* a run of the version-2 workflow gate, started with inputs, has executed
\* its start step and been resumed past it
C24_Witness ==
    \E id \in RunIds :
        /\ runs[id].workflow_id = "gate"
        /\ runs[id].workflow_version = 2
        /\ "value" \in DOMAIN runs[id].context.runtime
        /\ history[id] # <<>>
        /\ history[id][1].step_id = "a"
        /\ runs[id].current_step = "f"

FormKeys == {"name", "note", "extra"}
FormValues == {Str("Diana"), Num(7)}
FormInputs == UNION {[keys -> FormValues] : keys \in SUBSET FormKeys}

\* m1 is a sub-map of m2: its keys are keys of m2, with the same values
SubMap(m1, m2) == DOMAIN m1 \subseteq DOMAIN m2 /\ \A k \in DOMAIN m1 : m1[k] = m2[k]

\* C26: for the form a run waits at and every inputs map on which
\* validate_fields succeeds, the result is a sub-map of the inputs, holds
\* every required field and no key outside the schema, and validating the
\* result again succeeds with the same result.
C26_ValidateFieldsSubMap ==
    \A id \in RunIds :
        WaitingAtForm(id) =>
           LET config == StepOfRun(id).config
               keys == {config.fields[n].key : n \in 1..Len(config.fields)}
               required == {config.fields[n].key : n \in {m \in 1..Len(config.fields) : config.fields[m].required}}
           IN  \A inputs \in FormInputs \cup ResumeInputs :
                  LET validated == validate_fields(config, inputs) IN
                  validated.ok =>
                     /\ SubMap(validated.value, inputs)
                     /\ required \subseteq DOMAIN validated.value
                     /\ DOMAIN validated.value \subseteq keys
                     /\ validate_fields(config, validated.value) = validated

\* a resume of a run of workflow survey was accepted with an input outside
\* the form's schema, which validation has dropped from what was merged
C26_Witness ==
    \E c \in Callers :
        LET id == calls[c].outcome.run_id IN
        /\ calls[c].pc = "done" /\ calls[c].op = "resume"
        /\ calls[c].outcome.kind = "returned"
        /\ runs[id].workflow_id = "survey"
        /\ runs[id].current_step = None
        /\ "name" \notin DOMAIN runs[id].context.runtime
        /\ validate_fields(Workflow("survey").steps[1].config, [name |-> Str("Diana")]) = Valid(EmptyMap)

\* layers for the namespace merge: every map from a subset of three names to
\* a value that tells the layer it came from
LayerKeys == {"value", "g_output", "x"}
Layers(mark) == UNION {[keys -> {Str(mark)}] : keys \in SUBSET LayerKeys}

\* caller c is in the advance loop, about to execute a conditional step
AtConditionalStep(c) ==
    /\ calls[c].pc = "loop"
    /\ calls[c].sess.current_step # None
    /\ StepMapGet(Workflow(calls[c].sess.workflow_id), calls[c].sess.current_step).type = "conditional"

\* C27: for the runtime a conditional step is about to be evaluated on and
\* every static and profile layer, the flat namespace has exactly the keys of
\* the three layers, and each key has its runtime value if runtime holds it,
\* else its profile value if profile holds it, else its static value.
C27_NamespacePriority ==
    \A c \in Callers :
        AtConditionalStep(c) =>
           \A static \in Layers("static"), profile \in Layers("profile") :
              LET runtime == calls[c].sess.context.runtime
                  namespace == MergeContextNamespaces(
                                  [static |-> static, profile |-> profile, runtime |-> runtime])
              IN  /\ DOMAIN namespace = DOMAIN static \cup DOMAIN profile \cup DOMAIN runtime
                  /\ \A k \in DOMAIN namespace :
                        namespace[k] = IF k \in DOMAIN runtime THEN runtime[k]
                                       ELSE IF k \in DOMAIN profile THEN profile[k]
                                       ELSE static[k]

\* a conditional step was evaluated on a runtime holding value = 15, which
\* the namespace takes over the static and profile entries of that name
C27_Witness ==
    \E id \in RunIds :
        /\ history[id] # <<>>
        /\ Last(history[id]).type = "conditional"
        /\ Last(history[id]).status = "completed"
        /\ Last(history[id]).output.result = TRUE
        /\ "value" \in DOMAIN runs[id].context.runtime
        /\ runs[id].context.runtime["value"] = Num(15)
        /\ MergeContextNamespaces([static |-> [value |-> Str("static"), x |-> Str("static")],
                                   profile |-> [value |-> Str("profile")],
                                   runtime |-> runs[id].context.runtime])["value"] = Num(15)

\* expression lengths on both sides of the limit
BoundaryLengths == (MAX_EXPRESSION_LENGTH - 2)..(MAX_EXPRESSION_LENGTH + 2)

\* the conditional step caller c is about to execute
ConditionalOf(c) ==
    StepMapGet(Workflow(calls[c].sess.workflow_id), calls[c].sess.current_step)

\* C28: the length limit is inclusive at 256. An expression of 257 or more
\* characters is rejected by the validation (ValueError, the Invalid surface)
\* whatever else it is; one of up to 256 characters that has no attribute
\* access passes the validation and the step's outcome is that of its
\* evaluation. The run executing a 257-character expression fails with that
\* error; the run executing a 256-character one records the evaluated result.
C28_LengthLimitInclusive ==
    /\ [](\A c \in Callers :
            AtConditionalStep(c) =>
               \A n \in BoundaryLengths :
                  LET expression == [ConditionalOf(c).config.when EXCEPT !.len = n]
                      context == calls[c].sess.context
                      r == ConditionalExecute([when |-> expression], context, ConditionalOf(c).step_id)
                      evaluated == Evaluate(expression, MergeContextNamespaces(context))
                  IN  /\ n > 256 =>
                            /\ r.raised /\ r.exc = "ValueError"
                            /\ r.msg = "Expression exceeds maximum length"
                      /\ (n <= 256 /\ ~expression.attr) =>
                            /\ ValidateExpression(expression).ok
                            /\ r.raised = ~evaluated.ok
                            /\ evaluated.ok => r.result.result = evaluated.value
                            /\ ~evaluated.ok => r.msg = evaluated.msg)
    /\ [][\A c \in Callers :
             (AtConditionalStep(c) /\ calls'[c] # calls[c]) =>
                LET id == calls[c].sess.id
                    expression == ConditionalOf(c).config.when
                IN  /\ expression.len >= 257 =>
                          /\ runs'[id].status = "failed"
                          /\ Last(history'[id]).status = "failed"
                          /\ Last(history'[id]).error = "Expression exceeds maximum length"
                          /\ calls'[c].outcome.kind = "raised"
                          /\ calls'[c].outcome.error = "Invalid"
                    /\ (expression.len = 256 /\ ~expression.attr) =>
                          /\ Last(history'[id]).status = "completed"
                          /\ Last(history'[id]).output.result = TRUE
                          /\ runs'[id].current_step = ConditionalOf(c).next]_vars

\* a run has evaluated its 256-character expression and failed on its
\* 257-character one
C28_Witness ==
    \E id \in RunIds :
        /\ Len(history[id]) = 3
        /\ history[id][1].step_id = "c256"
        /\ history[id][1].status = "completed"
        /\ history[id][1].output.result = TRUE
        /\ history[id][3].step_id = "c257"
        /\ history[id][3].status = "failed"
        /\ history[id][3].error = "Expression exceeds maximum length"
        /\ runs[id].status = "failed"

\* C29: every conditional expression containing "__" is rejected by the
\* validation that precedes the evaluation, and the run executing it
\* becomes failed, with a failed RunStep carrying the validation's error.
C29_DunderRejected ==
    /\ [](\A c \in Callers :
            (AtConditionalStep(c) /\ ConditionalOf(c).config.when.dunder) =>
               /\ ~ValidateExpression(ConditionalOf(c).config.when).ok
               /\ ConditionalExecute(ConditionalOf(c).config, calls[c].sess.context,
                                     ConditionalOf(c).step_id).raised)
    /\ [][\A c \in Callers :
             (AtConditionalStep(c) /\ ConditionalOf(c).config.when.dunder
                /\ calls'[c] # calls[c]) =>
                /\ runs'[calls[c].sess.id].status = "failed"
                /\ Last(history'[calls[c].sess.id]).status = "failed"
                /\ calls'[c].outcome.kind = "raised"]_vars

\* the advance loop of some caller holds run id
InLoop(id) == \E c \in Callers : calls[c].pc = "loop" /\ calls[c].sess.id = id

\* the runtime entry a pausing step of this type writes before it pauses
PauseEntry(record) ==
    CASE record.type = "form" -> record.step_id \o "_schema"
      [] record.type = "approval" -> record.step_id \o "_approval"
      [] OTHER -> ""

\* C30: every commit of the advance loop changes the history and the row
\* together. A RunStep is only ever appended; the completed record of a
\* non-pausing step s appears in the very commit that moves current_step
\* from s to s.next; a pause record appears in the very commit that makes the
\* status waiting at that step, with the step's context entry written; and
\* the loop commits no move of current_step and no waiting status without
\* the record.
C30_CommitsAtomic ==
    [][\A id \in RunIds :
          LET appended == history'[id] # history[id]
              record == Last(history'[id])
              step == StepMapGet(WorkflowOf(id), record.step_id)
          IN  /\ appended =>
                    /\ Len(history'[id]) = Len(history[id]) + 1
                    /\ SubSeq(history'[id], 1, Len(history[id])) = history[id]
                    /\ runs[id].current_step = record.step_id
              /\ (appended /\ record.status = "completed" /\ ~Pause(record.output)) =>
                    /\ runs'[id].current_step = step.next
                    /\ runs'[id].status = runs[id].status
              /\ (appended /\ record.status = "completed" /\ Pause(record.output)) =>
                    /\ runs'[id].status = "waiting"
                    /\ runs'[id].current_step = record.step_id
                    /\ PauseEntry(record) # "" =>
                          PauseEntry(record) \in DOMAIN runs'[id].context.runtime
              /\ (InLoop(id) /\ runs'[id].current_step # runs[id].current_step) =>
                    (appended /\ record.status = "completed" /\ ~Pause(record.output))
              /\ (InLoop(id) /\ runs'[id].status = "waiting" /\ runs[id].status # "waiting") =>
                    (appended /\ Pause(record.output))
              /\ (InLoop(id) /\ runs'[id].context # runs[id].context) => appended]_vars

\* a committed state between two passes of the loop: the record of the
\* non-pausing step c256 is there and current_step is its next
C30_Witness ==
    \E id \in RunIds :
        /\ InLoop(id)
        /\ history[id] # <<>>
        /\ Last(history[id]).step_id = "c256"
        /\ Last(history[id]).status = "completed"
        /\ runs[id].current_step = "cdunder"
        /\ runs[id].status = "running"

\* C31: no run is held by the advance loops of two callers; and a resume
\* that has read a run as waiting, but finds at its commit that the row is
\* no longer waiting because another resume has taken the run, fails with
\* Conflict and changes neither the row nor the history.
C31_OneResumeWins ==
    /\ [](\A c, d \in Callers :
            (calls[c].pc \in {"loop", "complete"} /\ calls[d].pc \in {"loop", "complete"}
               /\ calls[c].sess.id = calls[d].sess.id) => c = d)
    /\ [][\A c \in Callers :
             (calls[c].pc = "resume" /\ calls'[c] # calls[c]
                /\ runs[calls[c].args.run_id].status # "waiting") =>
                /\ calls'[c].pc = "done"
                /\ calls'[c].outcome.kind = "raised"
                /\ calls'[c].outcome.error = "Conflict"
                /\ UNCHANGED <<runs, history>>]_vars

\* the status changes the lifecycle allows
Transitions ==
    { <<"running", "waiting">>, <<"waiting", "running">>, <<"running", "completed">>,
      <<"running", "failed">>, <<"running", "canceled">>, <<"waiting", "canceled">> }

\* C32: with cancels arriving between the commits of a call, the committed
\* status of a run changes only along running->waiting, waiting->running,
\* running->completed, running->failed, running->canceled and
\* waiting->canceled; a completed, failed or canceled run keeps its status.
C32_StatusTransitions ==
    [][\A id \in RunIds :
          runs'[id].status # runs[id].status =>
             <<runs[id].status, runs'[id].status>> \in Transitions]_vars

\* run id waits at an approval step
WaitingAtApprovalStep(id) == runs[id].status = "waiting" /\ StepOfRun(id).type = "approval"

\* C33: in every committed state in which a run waits at form step f,
\* runtime[<f>_schema] is f's field descriptors; in every committed state in
\* which a run waits at approval step a, runtime[<a>_approval] has status
\* pending, a's approvers and the token of the pause result recorded for a.
\* (Holding in every committed state, the entry is there from the commit that
\* made the run waiting.)
C33_PauseEntryCommitted ==
    \A id \in RunIds :
        LET step == StepOfRun(id)
            runtime == runs[id].context.runtime
        IN  /\ WaitingAtForm(id) =>
                  /\ (step.step_id \o "_schema") \in DOMAIN runtime
                  /\ runtime[step.step_id \o "_schema"] = List(step.config.fields)
            /\ WaitingAtApprovalStep(id) =>
                  /\ (step.step_id \o "_approval") \in DOMAIN runtime
                  /\ runtime[step.step_id \o "_approval"].t = "map"
                  /\ runtime[step.step_id \o "_approval"].m["status"] = Str("pending")
                  /\ runtime[step.step_id \o "_approval"].m["approvers"] = List(step.config.approvers)
                  /\ history[id] # <<>>
                  /\ Last(history[id]).step_id = step.step_id
                  /\ runtime[step.step_id \o "_approval"].m["token"] = Last(history[id]).output.approval_token

\* a run waits at approval step a for the second time, after a resume that
\* gave no inputs, with the pending entry of the second pause
C33_Witness ==
    \E id \in RunIds :
        /\ WaitingAtApprovalStep(id)
        /\ Len(history[id]) = 2
        /\ history[id][1].step_id = history[id][2].step_id
        /\ runs[id].context.runtime["a_approval"].m["token"] = Token(2)
        /\ runs[id].context.runtime["a_approval"].m["status"] = Str("pending")

\* record i of run id is the pause of an AI step for manual fix
ManualFixPause(id, i) ==
    /\ history[id][i].type = "ai_generate"
    /\ history[id][i].status = "completed"
    /\ Pause(history[id][i].output)

\* C34: the advance loop appends exactly one RunStep per executor invocation
\* (an AI execution of 2 or 3 provider attempts included); no two RunSteps of
\* a run have the same step_id and started_at; and a step_id appears more than
\* once in a run's history only when the earlier record is the pause of an AI
\* step for manual fix, after which the step was executed again.
C34_OneRunStepPerExecution ==
    /\ [](\A id \in RunIds : \A i, j \in 1..Len(history[id]) :
             (i < j /\ history[id][i].step_id = history[id][j].step_id) =>
                 /\ history[id][i].started_at # history[id][j].started_at
                 /\ ManualFixPause(id, i))
    /\ [][\A id \in RunIds :
             /\ Len(history'[id]) <= Len(history[id]) + 1
             /\ \A i \in 1..Len(history[id]) : history'[id][i] = history[id][i]]_vars

\* layers for variable resolution: every map from a subset of two names to a
\* value that tells the layer it came from, or to null
NullableLayers(mark) == UNION {[keys -> {Str(mark), Null}] : keys \in SUBSET {"name", "x"}}

\* the AI step caller c is about to execute
AIStepOf(c) == StepMapGet(Workflow(calls[c].sess.workflow_id), calls[c].sess.current_step)

\* C35: for the runtime an AI step is about to be executed on and every static
\* and profile layer (null values included), when every variable name of the
\* step is held by at least one layer, variable resolution succeeds and gives
\* each name the value of the first of static, profile, runtime that holds it.
C35_FirstLayerWins ==
    \A c \in Callers :
        AtAIStep(c) =>
           \A static \in NullableLayers("static"), profile \in NullableLayers("profile") :
              LET runtime == calls[c].sess.context.runtime
                  config == AIStepOf(c).config
                  names == {config.variables[n] : n \in 1..Len(config.variables)}
                  extracted == ExtractVariables(config,
                                  [static |-> static, profile |-> profile, runtime |-> runtime])
              IN  /\ extracted.ok
                  /\ DOMAIN extracted.value = names
                  /\ \A v \in names :
                        extracted.value[v] = IF v \in DOMAIN static THEN static[v]
                                             ELSE IF v \in DOMAIN profile THEN profile[v]
                                             ELSE runtime[v]

\* inputs maps for the form fields of the store: every map from a subset of
\* the keys name, note, age to a string, the empty string or a number
FieldInputs == UNION {[keys -> {Str("Diana"), Str(""), Num(7)}] : keys \in SUBSET {"name", "note", "age"}}

\* the error field rejects the inputs with, "" when it accepts them
FieldFault(field, inputs) ==
    IF field.required /\ field.key \notin DOMAIN inputs
    THEN "Required field '" \o field.key \o "' is missing"
    ELSE IF field.key \notin DOMAIN inputs THEN ""
    ELSE IF field.type \notin {"text", "textarea"}
    THEN "Field type '" \o field.type \o "' not supported"
    ELSE IF inputs[field.key].t # "str"
    THEN "Field '" \o field.key \o "' must be a string"
    ELSE ""

\* C36: for the form a run waits at and every inputs map, validate_fields
\* raises exactly when some configured field is required and absent, or
\* present with a type outside {text, textarea}, or present with a value that
\* is no string (the empty string is a string); the error is that of the first
\* faulty field in configuration order; otherwise the result is exactly the
\* configured keys present in the inputs, each with its input value.
C36_ValidateFieldsExact ==
    \A id \in RunIds :
        WaitingAtForm(id) =>
           LET fields == StepOfRun(id).config.fields
               keys == {fields[n].key : n \in 1..Len(fields)}
           IN  \A inputs \in FieldInputs \cup ResumeInputs :
                  LET validated == validate_fields(StepOfRun(id).config, inputs)
                      faulty == {n \in 1..Len(fields) : FieldFault(fields[n], inputs) # ""}
                  IN  /\ ~validated.ok <=> faulty # {}
                      /\ ~validated.ok <=> FieldsFaulty(fields, inputs)
                      /\ ~validated.ok =>
                            /\ validated.exc = "ValueError"
                            /\ \E n \in faulty :
                                  /\ \A m \in faulty : n <= m
                                  /\ validated.msg = FieldFault(fields[n], inputs)
                      /\ validated.ok =>
                            /\ DOMAIN validated.value = keys \cap DOMAIN inputs
                            /\ \A k \in DOMAIN validated.value : validated.value[k] = inputs[k]

\* a resume of a run waiting at the form of workflow lifecycle gave a string
\* for name and a value for age, whose type the form does not support: it was
\* rejected with the error of field age, and the run still waits at the
\* form, which accepts the empty string for name
C36_Witness ==
    \E c \in Callers :
        LET id == calls[c].outcome.run_id IN
        /\ calls[c].pc = "done" /\ calls[c].op = "resume"
        /\ calls[c].outcome.kind = "raised"
        /\ calls[c].outcome.msg = "Field type 'number' not supported"
        /\ WaitingAtForm(id)
        /\ validate_fields(StepOfRun(id).config, [name |-> Str(""), note |-> Str("Diana")])
              = Valid([name |-> Str(""), note |-> Str("Diana")])

\* the runtime entry the executor of step writes: none for a conditional step
OwnEntry(step) ==
    IF step = NoStep THEN {}
    ELSE CASE step.type = "form" -> {step.step_id \o "_schema"}
           [] step.type = "approval" -> {step.step_id \o "_approval"}
           [] step.type = "ai_generate" -> {step.step_id \o "_output"}
           [] OTHER -> {}

\* this step leaves the static and profile layers of run id as they were, and
\* every runtime entry outside free: none is added, removed or given a new value
ContextFrame(id, free) ==
    LET old == runs[id].context
        new == runs'[id].context
    IN  /\ new.static = old.static
        /\ new.profile = old.profile
        /\ \A k \in (DOMAIN old.runtime \cup DOMAIN new.runtime) \ free :
              /\ k \in DOMAIN old.runtime
              /\ k \in DOMAIN new.runtime
              /\ new.runtime[k] = old.runtime[k]

\* the step the advance loop of caller c is about to execute
LoopStep(c) == StepMapGet(Workflow(calls[c].sess.workflow_id), calls[c].sess.current_step)

\* the approval entry of step, when it is an approval step
ApprovalEntry(step) == IF step.type = "approval" THEN OwnEntry(step) ELSE {}

\* C37 as stated: a pass of the advance loop changes, of the run's context,
\* only the runtime entry of the step it executes (<step_id>_schema for a
\* form step, <step_id>_approval for an approval step, <step_id>_output for an
\* AI step, nothing for a conditional step), and ResumeRun too leaves every
\* other runtime entry and the static and profile layers unchanged.
C37_StepFrame ==
    [][\A id \in RunIds :
          /\ \A c \in Callers :
                (calls[c].pc = "loop" /\ calls[c].sess.id = id) =>
                   ContextFrame(id, OwnEntry(LoopStep(c)))
          /\ \A c \in Callers :
                (Issues(c, "resume") /\ calls'[c].args.run_id = id) =>
                   ContextFrame(id, OwnEntry(StepOfRun(id)))]_vars

\* C37, amended: a pass of the advance loop changes, of the run's context,
\* only the runtime entry of the step it executes; ResumeRun changes only the
\* runtime entries named by keys of its inputs and the approval entry of the
\* approval step the run waits at; the static and profile layers are left
\* unchanged by both, and a rejected resume changes nothing.
C37_StepAndResumeFrame ==
    [][\A id \in RunIds :
          /\ \A c \in Callers :
                (calls[c].pc = "loop" /\ calls[c].sess.id = id) =>
                   ContextFrame(id, OwnEntry(LoopStep(c)))
          /\ \A c \in Callers :
                (Issues(c, "resume") /\ calls'[c].args.run_id = id) =>
                   IF calls'[c].pc = "loop"
                   THEN ContextFrame(id, DOMAIN calls'[c].args.inputs
                                            \cup ApprovalEntry(StepOfRun(id)))
                   ELSE runs'[id] = runs[id]]_vars

\* a run of workflow lifecycle has completed: its runtime still holds the
\* start inputs next to the entries of the form step and the AI step
C37_Witness ==
    \E id \in RunIds :
        /\ runs[id].workflow_id = "lifecycle"
        /\ runs[id].status = "completed"
        /\ Len(history[id]) = 3
        /\ DOMAIN runs[id].context.runtime = {"name", "value", "f_schema", "g_output"}
        /\ runs[id].context.runtime["value"] = Num(15)
        /\ runs[id].context.static = EmptyMap

\* C38: the runtime context of a run only accumulates: no step removes a key
\* from context.runtime, whether it executes a workflow step or resumes the
\* run, so every key the runtime once held it still holds at every later
\* step and when the run completes.
C38_RuntimeAccumulates ==
    [][\A id \in RunIds :
          DOMAIN runs[id].context.runtime \subseteq DOMAIN runs'[id].context.runtime]_vars

\* a run of workflow lifecycle started with inputs has completed after one
\* resume: the start inputs, the form value merged by the resume and the
\* entries of the form step and the AI step are all in its runtime
C38_Witness ==
    \E id \in RunIds :
        /\ runs[id].workflow_id = "lifecycle"
        /\ runs[id].status = "completed"
        /\ runs[id].current_step = None
        /\ {"value", "name", "f_schema", "g_output"} \subseteq DOMAIN runs[id].context.runtime
        /\ \E c \in Callers : calls[c].op = "resume" /\ calls[c].pc = "done"
                                 /\ calls[c].outcome.run_id = id

\* C39: after every successful create or update of a workflow, in any
\* sequence, the stored workflow satisfies both invariants (start_step is the
\* step_id of one of its stored steps, every stored step's next is empty or
\* the step_id of one of its stored steps), and each successful update
\* increases version by exactly 1.
C39_StoreKeepsInvariants ==
    /\ [](\A id \in 1..Len(workflow_table) : WellFormed(workflow_table[id]))
    /\ [][\A c \in Callers :
             (Ready(c) /\ calls'[c].op = "update_workflow" /\ calls'[c].outcome.kind = "returned") =>
                LET id == calls'[c].outcome.run_id IN
                workflow_table'[id].version = workflow_table[id].version + 1]_vars

\* the (step_id, status) sequence of the history of run id
Trail(id) == [k \in 1..Len(history[id]) |-> <<history[id][k].step_id, history[id][k].status>>]

\* two runs exist and the calls made for them are over
TwinsAtRest == Len(runs) = 2 /\ \A c \in Callers : Free(c)

\* the two runs agree in history, status and current_step
TwinsAgree ==
    /\ Trail(1) = Trail(2)
    /\ runs[1].status = runs[2].status
    /\ runs[1].current_step = runs[2].current_step

\* the AI steps of the two runs were given the same results by the provider:
\* record for record, the outputs of their AI steps are equal
SameProviderResults ==
    \A k \in 1..Len(history[1]) :
        (k <= Len(history[2]) /\ "ai_generate" \in {history[1][k].type, history[2][k].type})
            => history[1][k].output = history[2][k].output

\* a pass of caller c's advance loop over a conditional step that does not raise
\* records the step without pausing and moves to its next, whatever the result
ConditionalNeverBranches ==
    \A c \in Callers :
        (/\ calls[c].pc = "loop"
         /\ calls'[c] # calls[c]
         /\ LoopStep(c) # NoStep
         /\ LoopStep(c).type = "conditional") =>
           LET id == calls[c].sess.id IN
           /\ runs'[id].status # "waiting"
           /\ Len(history'[id]) = Len(history[id]) + 1
           /\ Last(history'[id]).step_id = LoopStep(c).step_id
           /\ Last(history'[id]).status = "completed" =>
                 /\ ~Pause(Last(history'[id]).output)
                 /\ Last(history'[id]).output.result \in BOOLEAN
                 /\ runs'[id].current_step = LoopStep(c).next

\* C40 as stated: two runs of the same workflow that receive the same start
\* inputs and the same sequence of resume inputs record the same sequence of
\* (step_id, status) and end in the same status and current_step; and a
\* conditional step never pauses, the step after it being its next for both
\* results.
C40_TwinRunsAgree ==
    /\ [](TwinsAtRest => TwinsAgree)
    /\ [][ConditionalNeverBranches]_vars

\* C40, amended: two runs of the same workflow that receive the same start
\* inputs and the same sequence of resume inputs, and whose AI steps are
\* given the same results by the provider, record the same sequence of
\* (step_id, status) and end in the same status and current_step; and a
\* conditional step never pauses, the step after it being its next for both
\* results.
C40_TwinRunsAgreeGivenProvider ==
    /\ []((TwinsAtRest /\ SameProviderResults) => TwinsAgree)
    /\ [][ConditionalNeverBranches]_vars

\* two runs of workflow lifecycle, started alike and resumed once with the
\* same inputs, were given the same object by the provider and have both
\* completed over the same three steps, the last one a conditional step
C40_Witness ==
    /\ TwinsAtRest
    /\ SameProviderResults
    /\ TwinsAgree
    /\ runs[1].workflow_id = "lifecycle"
    /\ runs[1].status = "completed"
    /\ Len(history[1]) = 3 /\ Len(history[2]) = 3
    /\ history[1][2].type = "ai_generate"
    /\ history[2][3].type = "conditional"
    /\ history[2][3].output.result = TRUE
====
